---- MODULE Spec2Model ----
(***************************************************************************)
(* A model of the aether-core crate: the broker (Aether) in local mode     *)
(* with its channel registry of tokio broadcast queues, the circuit        *)
(* breaker of reliability.rs and the task pool of task_manager.rs.         *)
(* Each subsystem has its own specification over the shared variables;     *)
(* the variables of the other subsystems stay at their initial values.     *)
(***************************************************************************)
EXTENDS Integers, Sequences, FiniteSets, TLC

(***************************************************************************)
(* Bounds of the model.                                                    *)
(***************************************************************************)
\* number of emit calls that return ok
MaxEmits == 2
\* number of broadcast channels ever created in the registry
MaxChans == 2
\* config.channel_buffer_size, scaled down (default 1000)
ChannelBufferSize == 1
\* config.max_propagation, scaled down (default 10)
MaxPropagation == 2
\* config.max_channel_length, scaled down (default 128)
MaxChannelLength == 2
\* config.max_payload_bytes, scaled down (default 1 MiB)
MaxPayloadBytes == 2

\* largest failure_threshold and half_open_successes given to CircuitBreaker::new
MaxThreshold == 2
\* open_duration, in clock ticks
OpenDuration == 2
\* the clock stops after this many ticks
MaxTime == 5
\* TaskManager::new is given max_inflight in 0..MaxInflightArg
MaxInflightArg == 2
\* number of spawn calls
MaxSpawns == 3
\* largest rate_limit_per_sec (whole numbers) of a rate-limited pool
MaxRate == 2
\* width in bits of the u32 factor of backoff_delay, scaled down from 32
FactorBits == 2
\* Duration::MAX, scaled down
DurationMax == 4
\* RetryPolicy: base_delay and max_delay are taken from 0..MaxDelayArg
MaxDelayArg == 2
\* the emit calls that reach the durable log
MaxAppends == 3
\* the largest snapshot_interval tried
MaxInterval == 2
\* the number of binary digits of a key of the log
KeyBits == 3
\* the messages published on the transport
MaxPublishes == 1
\* the subscribe calls in transport mode
MaxTSubs == 2
\* the segments of a channel name
MaxSegments == 3
\* the width of a u64 word in the hopping functions
WordBits == 4
\* the hop counts and hop intervals tried
MaxHopCount == 3
MaxIntervalMs == 2
\* the emit calls on a relayed wave
MaxRelays == 3
\* the per-attempt timeout of retry_with_timeout, in ticks
AttemptTimeout == 1

\* concurrent callers of Aether::emit on clones of one broker
Emitters == {"e1", "e2"}
\* the broadcast::Receiver handles subscribe gives out, in the order given
Receivers == {1, 2}

(***************************************************************************)
(* Values.                                                                 *)
(***************************************************************************)
None == "None"

\* amplitudes are fixed-point thousandths: 1000 is 1.0
AmpOne == 1000
\* the amplitude 0.1 of a weak wave
LowAmp == 100
\* VibratorConfig::new: noise_floor 0.01
DefaultNoiseFloor == 10
\* a raised noise floor, 0.5
HighNoiseFloor == 500
\* DEFAULT_MIN_AMPLITUDE = 0.01 in thousandths
DefaultMinAmplitude == 10

\* channel names are sequences of characters
NameA == <<"a">>
NameB == <<"b">>
ValidNames == {NameA, NameB}
TooLongName == [i \in 1..(MaxChannelLength + 1) |-> "a"]
NameInputs == ValidNames \cup {<<>>, <<"a", "!">>, TooLongName}

VARIABLES
    config,       \* AetherConfig: [auth_token, allowed_sources]
    channels,     \* Aether.channels: name -> broadcast channel id (0: no entry)
    queue,        \* per broadcast channel: every wave pushed into it, oldest first
    cursors,      \* the broadcast::Receiver handles given out by subscribe
    total_waves,  \* AetherStats.total_waves
    em,           \* per emit caller: position in Aether::emit and its locals
    nextId,       \* next wave identity (Uuid::new_v4 of the builder)
    returned,     \* ghost: the emit calls that have returned ok, with how they ended
    pushLog,      \* ghost: the ids of the waves pushed, in the order of the pushes
    cbConf,       \* CircuitBreaker: failure_threshold, open_duration, half_open_successes
    cb,           \* CircuitBreaker.state
    now,          \* the clock Instant::now() reads
    callers,      \* per caller of CircuitBreaker::call: position and ghost record
    closedFails,  \* ghost: failed calls recorded in Closed since the last success
    poolConf,     \* TaskManager::new: the argument and the semaphore's capacity
    permits,      \* TaskManager.semaphore: available permits
    tasks,        \* the futures given to spawn: unborn, live, done, panicked, cancelled
    join_set,     \* TaskManager.join_set: tasks not yet reaped
    spawner,      \* position of the owner of the pool inside spawn
    nextTask,     \* the next future to be given to spawn
    dropped,      \* the TaskManager has been dropped
    waited,       \* ghost: the running or last spawn call found no permit free
    rlRate,       \* rate-limited pool: rate_limit_per_sec; time is counted in periods of 1/rate s
    rlNow,        \* rate-limited pool: the clock
    rlDeadline,   \* RateLimiter.interval: the instant of its next tick
    rlSpawner,    \* rate-limited pool: position of the owner inside spawn
    rlLive,       \* rate-limited pool: number of live tasks
    rlDone,       \* ghost: the instants at which the spawn calls returned
    policy,       \* retry_with_timeout: the RetryPolicy
    attempt,      \* retry_with_timeout: the local attempt
    rtPc,         \* retry_with_timeout: "run", "sleep" or "done"
    rtResult,     \* retry_with_timeout: what it returned
    rtCalls,      \* ghost: number of invocations of f
    rtOks,        \* ghost: number of attempts that succeeded
    rtDelays,     \* ghost: the delays computed after the failed attempts, in order
    vreg,         \* vibrators' broker: Aether.channels, name -> broadcast channel id
    vq,           \* vibrators' broker: per broadcast channel, the waves pushed
    vib,          \* per Vibrator: its receivers, its position in receive, ghosts
    vEmitted,     \* ghost: per wave id, who emitted it, how, and the wave as sent
    ckCfg,        \* emit checks: the broker's AetherConfig
    ckVibToken,   \* emit checks: the auth_token of the VibratorConfig
    ckWave,       \* emit checks: the wave handed to emit
    ckOut,        \* emit checks: "none" or the call made, the wave sent and the outcome
    store,        \* durable log: Aether.store is Some
    snapshot_interval, \* durable log: AetherConfig.snapshot_interval
    log,          \* WaveStore.log: the set of (key, wave) pairs of the tree
    meta,         \* WaveStore.meta: the values under last_index and snapshot
    pstats,       \* durable log: AetherStats.total_waves of the broker
    pem,          \* durable log: per emit caller, position in emit and its locals
    pnext,        \* durable log: the identity of the next wave emitted
    appends,      \* ghost: per wave, the appends that had returned when its own was called, and its index
    recovered,    \* the result of the last recover_waves call; ghost: the parity of the calls
    removedAt,    \* ghost: per broadcast channel, the number of waves pushed into it when remove_channel took its entry (-1: it has not)
    nats_conf,    \* transport mode: nats_tls_required, and whether nats_url starts with tls://
    nats_client,  \* transport mode: the OnceCell of the client, "unset" or "set"
    tchannels,    \* transport mode: Aether.channels, name -> broadcast channel id (0: no entry)
    tqueue,       \* transport mode: per broadcast channel, the waves pushed into it
    bridges,      \* transport mode: per broadcast channel, the bridge task spawned for it
    tcursors,     \* transport mode: the receivers given out by subscribe
    tstats,       \* transport mode: AetherStats.total_waves
    tnext,        \* transport mode: the identity of the next wave published
    tlast,        \* ghost: how the last emit call ended
    mtarget,      \* channel matching: the segments of the channel matches is called on
    mpattern,     \* channel matching: the segments of the pattern channel
    mout,         \* channel matching: <<>> before the call, <<result>> after it
    hbase,        \* hopping: the segments of the base channel
    hn,           \* hopping: hop_count of the emitter
    hi,           \* hopping: hop_interval_ms of the emitter
    hsub,         \* hopping: <<>> or <<n>>, the hop_count the subscriber resonates with
    hwave,        \* hopping: <<>> or the wave emitted by emit_time_hopping_wave
    fcfg,         \* whole emit: the configuration, with snapshot_interval
    freg,         \* whole emit: Aether.channels, name -> broadcast channel id (0: no entry)
    fq,           \* whole emit: per broadcast channel, the ids of the waves pushed
    fcur,         \* whole emit: the receivers given out by subscribe
    fstats,       \* whole emit: AetherStats.total_waves
    flog,         \* whole emit: the durable log, the ids of the waves appended
    fsnap,        \* whole emit: the stored snapshot, <<>> or <<snapshot>>
    fnext,        \* whole emit: the identity of the next wave
    flast,        \* ghost: the wave of the last emit call and what the call returned
    rq,           \* relaying: the waves pushed into the channel's queue, with the count each had when passed to emit
    rcur,         \* relaying: the subscriber's receiver, the number of queue slots behind it
    rgot,         \* relaying: the waves the subscriber has received
    rcalls,       \* relaying: the emit calls made
    rlast,        \* ghost: the wave of the last emit call and the outcome of its checks
    raPolicy,     \* attempts in time: the RetryPolicy
    raAttempt,    \* attempts in time: the local attempt of retry_with_timeout
    raPc,         \* attempts in time: "run", "await" (in timeout(f())), "sleep" or "done"
    raInflight,   \* attempts in time: the invocations of f whose future exists
    raCalls,      \* attempts in time: the invocations of f made
    raClock,      \* attempts in time: the time
    raStarted,    \* attempts in time: when the last invocation of f was made
    raWake,       \* attempts in time: the deadline of the sleep
    raEnded,      \* ghost: when the last attempt ended, and how
    swq,               \* per receiver of the sweeping subscriber: the waves it has not read
    swlag,             \* per receiver: it was overrun since its last try_recv
    swpc,              \* the subscriber's receive call: "idle" or "receive"
    swidx,             \* the receiver the sweep of receive is at
    swgot,             \* the wave the last receive call returned
    swmark             \* where the marked wave is

brokerVars == <<config, channels, queue, cursors, total_waves, em, nextId, returned, pushLog>>
breakerVars == <<cbConf, cb, now, callers, closedFails>>
poolVars == <<poolConf, permits, tasks, join_set, spawner, nextTask, dropped, waited>>
rateVars == <<rlRate, rlNow, rlDeadline, rlSpawner, rlLive, rlDone>>
retryVars == <<policy, attempt, rtPc, rtResult, rtCalls, rtOks, rtDelays>>
vibVars == <<vreg, vq, vib, vEmitted>>
checkVars == <<ckCfg, ckVibToken, ckWave, ckOut>>
storeVars == <<store, snapshot_interval, log, meta, pstats, pem, pnext, appends, recovered>>
removalVars == <<removedAt>>
transportVars == <<nats_conf, nats_client, tchannels, tqueue, bridges, tcursors, tstats, tnext, tlast>>
matchVars == <<mtarget, mpattern, mout>>
hopVars == <<hbase, hn, hi, hsub, hwave>>
frameVars == <<fcfg, freg, fq, fcur, fstats, flog, fsnap, fnext, flast>>
relayVars == <<rq, rcur, rgot, rcalls, rlast>>
attemptsVars == <<raPolicy, raAttempt, raPc, raInflight, raCalls, raClock, raStarted, raWake, raEnded>>
sweepVars == <<swq, swlag, swpc, swidx, swgot, swmark>>
vars == <<brokerVars, breakerVars, poolVars, rateVars, retryVars, vibVars, checkVars, storeVars, removalVars, transportVars, matchVars, hopVars, frameVars, relayVars, attemptsVars, sweepVars>>

\* the variables of the other components, which a component's steps leave alone
notBroker == <<breakerVars, poolVars, rateVars, retryVars, vibVars, checkVars, storeVars, removalVars, transportVars, matchVars, hopVars, frameVars, relayVars, attemptsVars, sweepVars>>
notBreaker == <<brokerVars, poolVars, rateVars, retryVars, vibVars, checkVars, storeVars, removalVars, transportVars, matchVars, hopVars, frameVars, relayVars, attemptsVars, sweepVars>>
notPool == <<brokerVars, breakerVars, rateVars, retryVars, vibVars, checkVars, storeVars, removalVars, transportVars, matchVars, hopVars, frameVars, relayVars, attemptsVars, sweepVars>>
notRate == <<brokerVars, breakerVars, poolVars, retryVars, vibVars, checkVars, storeVars, removalVars, transportVars, matchVars, hopVars, frameVars, relayVars, attemptsVars, sweepVars>>
notVib == <<brokerVars, breakerVars, poolVars, rateVars, retryVars, checkVars, storeVars, removalVars, transportVars, matchVars, hopVars, frameVars, relayVars, attemptsVars, sweepVars>>
notRetry == <<brokerVars, breakerVars, poolVars, rateVars, vibVars, checkVars, storeVars, removalVars, transportVars, matchVars, hopVars, frameVars, relayVars, attemptsVars, sweepVars>>
notChecks == <<brokerVars, breakerVars, poolVars, rateVars, retryVars, vibVars, storeVars, removalVars, transportVars, matchVars, hopVars, frameVars, relayVars, attemptsVars, sweepVars>>
notStore == <<brokerVars, breakerVars, poolVars, rateVars, retryVars, vibVars, checkVars, removalVars, transportVars, matchVars, hopVars, frameVars, relayVars, attemptsVars, sweepVars>>
notRemoval == <<brokerVars, breakerVars, poolVars, rateVars, retryVars, vibVars, checkVars, storeVars, transportVars, matchVars, hopVars, frameVars, relayVars, attemptsVars, sweepVars>>
notBrokerRemoval == <<breakerVars, poolVars, rateVars, retryVars, vibVars, checkVars, storeVars, transportVars, matchVars, hopVars, frameVars, relayVars, attemptsVars, sweepVars>>
notTransport == <<brokerVars, breakerVars, poolVars, rateVars, retryVars, vibVars, checkVars, storeVars, removalVars, matchVars, hopVars, frameVars, relayVars, attemptsVars, sweepVars>>
notMatch == <<brokerVars, breakerVars, poolVars, rateVars, retryVars, vibVars, checkVars, storeVars, removalVars, transportVars, hopVars, frameVars, relayVars, attemptsVars, sweepVars>>
notHop == <<brokerVars, breakerVars, poolVars, rateVars, retryVars, vibVars, checkVars, storeVars, removalVars, transportVars, matchVars, frameVars, relayVars, attemptsVars, sweepVars>>
notFrame == <<brokerVars, breakerVars, poolVars, rateVars, retryVars, vibVars, checkVars, storeVars, removalVars, transportVars, matchVars, hopVars, relayVars, attemptsVars, sweepVars>>
notRelay == <<brokerVars, breakerVars, poolVars, rateVars, retryVars, vibVars, checkVars, storeVars, removalVars, transportVars, matchVars, hopVars, frameVars, attemptsVars, sweepVars>>
notAttempts == <<brokerVars, breakerVars, poolVars, rateVars, retryVars, vibVars, checkVars, storeVars, removalVars, transportVars, matchVars, hopVars, frameVars, relayVars, sweepVars>>
notSweep == <<brokerVars, breakerVars, poolVars, rateVars, retryVars, vibVars, checkVars, storeVars, removalVars, transportVars, matchVars, hopVars, frameVars, relayVars, attemptsVars>>

(***************************************************************************)
(* Wave (wave.rs).  A wave is a record                                     *)
(*   id, channel, payload_len, payload_bytes, amplitude, source,           *)
(*   auth_token, propagation_count                                         *)
(* payload_len is the length of the serialized structured payload and      *)
(* payload_bytes is <<>> for no opaque payload and <<n>> for one of n      *)
(* bytes.  source and auth_token are None or a string.                     *)
(***************************************************************************)
\* Wave::is_valid_with_threshold
IsValidWithThreshold(w, min_amplitude) == w.amplitude > min_amplitude

\* Wave::is_valid
IsValid(w) == IsValidWithThreshold(w, DefaultMinAmplitude)

\* Amplitude::attenuate(0.95) on fixed-point thousandths
Attenuate(a) == (a * 95) \div 100

\* faulty variant: the hop count is not incremented
PropagateNoCount(w) == [w EXCEPT !.amplitude = Attenuate(@)]

\* Wave::propagate
Propagate(w) ==
    [w EXCEPT !.propagation_count = @ + 1, !.amplitude = Attenuate(@)]

(***************************************************************************)
(* Aether (aether.rs), local mode: use_nats = false, no store.             *)
(***************************************************************************)
\* the characters is_valid_channel_name accepts, as far as the inputs use them
AllowedChars == {"a", "b", ".", "_", "-", "*"}

\* is_valid_channel_name
IsValidChannelName(name, max_len) ==
    /\ Len(name) # 0
    /\ Len(name) <= max_len
    /\ \A i \in 1..Len(name) : name[i] \in AllowedChars

\* faulty variant: the serialized structured payload is always what is measured
PayloadSizeStructured(w) == w.payload_len

\* the payload size emit compares with max_payload_bytes
PayloadSize(w) ==
    IF w.payload_bytes # <<>> THEN w.payload_bytes[1] ELSE w.payload_len

\* the variant of the checks without the validity check
EmitOutcomeNoValidity(cfg, w) ==
    IF ~IsValidChannelName(w.channel, MaxChannelLength) THEN "ValidationFailed"
    ELSE IF PayloadSize(w) > MaxPayloadBytes THEN "ValidationFailed"
    ELSE IF cfg.auth_token # None /\ w.auth_token # cfg.auth_token
        THEN "AuthorizationFailed"
    ELSE IF cfg.allowed_sources # {} /\ w.source \notin cfg.allowed_sources
        THEN "AuthorizationFailed"
    ELSE IF w.propagation_count >= MaxPropagation THEN "Exhausted"
    ELSE "Dispatch"

\* the variant of the checks that looks at hop exhaustion and validity first
EmitOutcomeDropFirst(cfg, w) ==
    IF w.propagation_count >= MaxPropagation THEN "Exhausted"
    ELSE IF ~IsValid(w) THEN "Invalid"
    ELSE IF ~IsValidChannelName(w.channel, MaxChannelLength) THEN "ValidationFailed"
    ELSE IF PayloadSize(w) > MaxPayloadBytes THEN "ValidationFailed"
    ELSE IF cfg.auth_token # None /\ w.auth_token # cfg.auth_token
        THEN "AuthorizationFailed"
    ELSE IF cfg.allowed_sources # {} /\ w.source \notin cfg.allowed_sources
        THEN "AuthorizationFailed"
    ELSE "Dispatch"

\* the checks of Aether::emit, in the order of the code, up to propagate()
EmitOutcome(cfg, w) ==
    IF ~IsValidChannelName(w.channel, MaxChannelLength) THEN "ValidationFailed"
    ELSE IF PayloadSize(w) > MaxPayloadBytes THEN "ValidationFailed"
    ELSE IF cfg.auth_token # None /\ w.auth_token # cfg.auth_token
        THEN "AuthorizationFailed"
    ELSE IF cfg.allowed_sources # {} /\ w.source \notin cfg.allowed_sources
        THEN "AuthorizationFailed"
    ELSE IF w.propagation_count >= MaxPropagation THEN "Exhausted"
    ELSE IF ~IsValid(w) THEN "Invalid"
    ELSE "Dispatch"

\* what emit returns for an outcome of the checks
EmitResult(out) ==
    IF out \in {"ValidationFailed", "AuthorizationFailed"} THEN out ELSE "Ok"

\* usize::next_power_of_two
RECURSIVE PowerOfTwoFrom(_, _)
PowerOfTwoFrom(p, n) == IF p >= n THEN p ELSE PowerOfTwoFrom(2 * p, n)
NextPowerOfTwo(n) == PowerOfTwoFrom(1, n)

\* broadcast::channel(config.channel_buffer_size): tokio rounds the capacity up
Capacity == NextPowerOfTwo(ChannelBufferSize)

\* the live receivers of a broadcast channel (Sender::receiver_count)
ReceiverCount(ch) ==
    Cardinality({i \in DOMAIN cursors : cursors[i].ch = ch})

\* mutant: send puts the wave at the head of the queue
PushFront(q, w) == <<w>> \o q

\* Sender::send pushes at the tail of the queue
Push(q, w) == Append(q, w)

\* whether Sender::send succeeds: it fails when the channel has no receiver
SendSucceeds(ch) == ReceiverCount(ch) > 0

\* mutant: emit counts the wave whether or not send succeeded
PcAfterSendAlways(sent) == "stats"

\* where emit goes after the match on the result of send: the Ok arm takes
\* the stats lock, the Err arm only warns and falls through to return
PcAfterSend(sent) == IF sent THEN "stats" ELSE "idle"

\* mutant: a new broadcast channel for every call, registered or not
EntryAlwaysNew(name) == Len(queue) + 1

\* the registry entry emit and subscribe use: entry(name).or_insert_with(new)
EntryOrInsert(name) ==
    IF channels[name] # 0 THEN channels[name] ELSE Len(queue) + 1

\* the senders of a broadcast channel still alive: the registry's and the
\* clones held by emit calls in progress
SenderCount(ch) ==
    Cardinality({n \in DOMAIN channels : channels[n] = ch})
    + Cardinality({e \in Emitters : em[e].sender = ch})

\* a receiver whose registry entry has been removed or cleared since it
\* subscribed: channel ids are never reused, so its channel is no longer the
\* one registered under its name
Orphan(i) == channels[cursors[i].name] # cursors[i].ch

\* faulty variant: a lagging receiver is moved to the tail
OldestRetainedNone(ch) == Len(queue[ch])

\* the position a lagging receiver is moved to: tail - capacity
OldestRetained(ch) == Len(queue[ch]) - Capacity

\* the slot a receiver reads next
ReadSlot(c) == c.next + 1

\* the broker configuration the model starts from
Configs ==
    { [auth_token |-> "tok", allowed_sources |-> {"v1", "v2"}] }

\* a wave as Wave::builder(..).build() leaves it, before any emit
BaseWave(id) ==
    [id |-> id, channel |-> NameA, payload_len |-> 1, payload_bytes |-> <<>>,
     amplitude |-> AmpOne, source |-> "v1", auth_token |-> "tok",
     propagation_count |-> 0]

\* the waves passed to emit: the base wave and its one-field variations
EmitInputs(id) ==
    LET b == BaseWave(id) IN
    {b}
    \cup {[b EXCEPT !.channel = n] : n \in NameInputs}
    \cup {[b EXCEPT !.payload_len = MaxPayloadBytes + 1]}
    \cup {[b EXCEPT !.payload_bytes = <<MaxPayloadBytes + 1>>]}
    \cup {[b EXCEPT !.amplitude = a] : a \in {DefaultMinAmplitude, 0}}
    \cup {[b EXCEPT !.source = x] : x \in {None, "v3"}}
    \cup {[b EXCEPT !.auth_token = x] : x \in {None, "bad"}}
    \cup {[b EXCEPT !.propagation_count = MaxPropagation]}

NoWave == BaseWave(0)

\* ghost: the record of a returned emit call: the wave's id and channel name,
\* how the call ended, what it returned, the receivers subscribed under the
\* name when the call began (pre) and those of them whose registry entry was
\* still in place then (live)
Returned(w, out, pre, live) ==
    [id |-> w.id, name |-> w.channel, outcome |-> out, result |-> EmitResult(out),
     pre |-> pre, live |-> live]

IdleEmit == [pc |-> "idle", wave |-> NoWave, sender |-> 0, pre |-> {}, live |-> {}]

BrokerInit ==
    /\ config \in Configs
    /\ channels = [n \in NameInputs |-> 0]
    /\ queue = <<>>
    /\ cursors = <<>>
    /\ total_waves = 0
    /\ em = [e \in Emitters |-> IdleEmit]
    /\ nextId = 1
    /\ returned = {}
    /\ pushLog = <<>>

\* Aether::emit, lines 145-269: the checks, propagate() and, for a wave that
\* passes, the registry entry under the write lock.  A rejected or silently
\* dropped wave returns before the registry is touched.  The checks read only
\* the wave and the configuration, so they are one step with the lookup.
\* A call that returns an error changes nothing and is not recorded; MaxEmits
\* bounds the calls that return ok.
EmitCallStep(e, w) ==
    /\ em[e].pc = "idle"
    /\ nextId <= MaxEmits
    /\ w.id = nextId
    /\ nextId' = IF EmitResult(EmitOutcome(config, w)) = "Ok" THEN nextId + 1 ELSE nextId
    /\ IF EmitOutcome(config, w) = "Dispatch"
       THEN LET name == w.channel
                ch == EntryOrInsert(name) IN
            /\ ch <= MaxChans
            /\ channels' = [channels EXCEPT ![name] = ch]
            /\ queue' = IF ch > Len(queue) THEN Append(queue, <<>>) ELSE queue
            /\ em' = [em EXCEPT ![e] =
                        [pc |-> "send", wave |-> Propagate(w), sender |-> ch,
                         pre |-> {i \in DOMAIN cursors : cursors[i].name = name},
                         live |-> {i \in DOMAIN cursors :
                                     cursors[i].name = name /\ ~Orphan(i)}]]
            /\ returned' = returned
       ELSE /\ returned' = IF EmitResult(EmitOutcome(config, w)) = "Ok"
                            THEN returned \cup {Returned(w, EmitOutcome(config, w), {}, {})}
                            ELSE returned
            /\ UNCHANGED <<channels, queue, em>>
    /\ UNCHANGED <<config, cursors, total_waves, pushLog>>

EmitCall(e, w) == EmitCallStep(e, w) /\ UNCHANGED notBroker

\* Aether::emit, lines 272-305: sender.send(wave)
EmitSendStep(e) ==
    /\ em[e].pc = "send"
    /\ LET ch == em[e].sender
           sent == SendSucceeds(ch)
           pc == PcAfterSend(sent) IN
       /\ queue' = IF sent THEN [queue EXCEPT ![ch] = Push(@, em[e].wave)] ELSE queue
       /\ pushLog' = IF sent THEN Append(pushLog, em[e].wave.id) ELSE pushLog
       /\ em' = [em EXCEPT ![e] = IF pc = "idle" THEN IdleEmit ELSE [@ EXCEPT !.pc = pc]]
       /\ returned' = IF pc = "idle"
                      THEN returned \cup
                             {Returned(em[e].wave, "NoReceiver", em[e].pre, em[e].live)}
                      ELSE returned
    /\ UNCHANGED <<config, channels, cursors, total_waves, nextId>>

EmitSend(e) == EmitSendStep(e) /\ UNCHANGED notBroker

\* Aether::emit, lines 282-283 and 307: the stats lock, total_waves += 1, Ok(())
EmitStatsStep(e) ==
    /\ em[e].pc = "stats"
    /\ total_waves' = total_waves + 1
    /\ em' = [em EXCEPT ![e] = IdleEmit]
    /\ returned' = returned \cup {Returned(em[e].wave, "Sent", em[e].pre, em[e].live)}
    /\ UNCHANGED <<config, channels, queue, cursors, nextId, pushLog>>

EmitStats(e) == EmitStatsStep(e) /\ UNCHANGED notBroker

\* Aether::subscribe in local mode: the whole body runs under the write lock
SubscribeStep(name) ==
    /\ Len(cursors) + 1 \in Receivers
    /\ LET ch == EntryOrInsert(name) IN
       /\ ch <= MaxChans
       /\ channels' = [channels EXCEPT ![name] = ch]
       /\ queue' = IF ch > Len(queue) THEN Append(queue, <<>>) ELSE queue
       /\ cursors' = Append(cursors,
                        [name |-> name, ch |-> ch,
                         next |-> IF ch > Len(queue) THEN 0 ELSE Len(queue[ch]),
                         yielded |-> <<>>, lagged |-> 0, missed |-> {}])
    /\ UNCHANGED <<config, total_waves, em, nextId, returned, pushLog>>

Subscribe(name) == SubscribeStep(name) /\ UNCHANGED notBroker

\* Aether::remove_channel when the entry exists; with no entry it returns
\* ChannelNotFound and changes nothing
RemoveChannelStep(name) ==
    /\ channels[name] # 0
    /\ channels' = [channels EXCEPT ![name] = 0]
    /\ UNCHANGED <<config, queue, cursors, total_waves, em, nextId, returned, pushLog>>

RemoveChannel(name) == RemoveChannelStep(name) /\ UNCHANGED notBroker

\* Aether::clear
ClearStep ==
    /\ \E n \in DOMAIN channels : channels[n] # 0
    /\ channels' = [n \in DOMAIN channels |-> 0]
    /\ UNCHANGED <<config, queue, cursors, total_waves, em, nextId, returned, pushLog>>

Clear == ClearStep /\ UNCHANGED notBroker

\* broadcast::Receiver::recv / try_recv on cursor i, when it does not find the
\* queue empty or closed: either it has fallen more than the capacity behind,
\* reports Lagged(missed) and moves to the oldest retained wave, or it yields
\* the wave at its position
RecvStep(i) ==
    /\ i \in DOMAIN cursors
    /\ LET c == cursors[i]
           tail == Len(queue[c.ch]) IN
       /\ c.next < tail
       /\ IF tail - c.next > Capacity
          THEN cursors' = [cursors EXCEPT
                             ![i].next = OldestRetained(c.ch),
                             ![i].lagged = @ + (OldestRetained(c.ch) - c.next),
                             ![i].missed = @ \cup
                                {queue[c.ch][k].id : k \in (c.next + 1)..OldestRetained(c.ch)}]
          ELSE cursors' = [cursors EXCEPT
                             ![i].next = @ + 1,
                             ![i].yielded = Append(@, queue[c.ch][ReadSlot(c)].id)]
    /\ UNCHANGED <<config, channels, queue, total_waves, em, nextId, returned, pushLog>>

Recv(i) == RecvStep(i) /\ UNCHANGED notBroker

\* the names subscribe and remove_channel are called with
SubscribeNames == ValidNames

BrokerNext ==
    \/ \E e \in Emitters : \E w \in EmitInputs(nextId) : EmitCall(e, w)
    \/ \E e \in Emitters : EmitSend(e)
    \/ \E e \in Emitters : EmitStats(e)
    \/ \E n \in SubscribeNames : Subscribe(n)
    \/ \E n \in SubscribeNames : RemoveChannel(n)
    \/ Clear
    \/ \E i \in Receivers : Recv(i)

(***************************************************************************)
(* CircuitBreaker (reliability.rs).  The state is a record with the tag of *)
(* the variant and its field; the fields of the other variants are 0.      *)
(***************************************************************************)
\* concurrent callers of CircuitBreaker::call on clones of one breaker
Callers == {"c1", "c2"}

Closed(failures) ==
    [tag |-> "Closed", failures |-> failures, opened_at |-> 0, successes |-> 0]
Open(opened_at) ==
    [tag |-> "Open", failures |-> 0, opened_at |-> opened_at, successes |-> 0]
HalfOpen(successes) ==
    [tag |-> "HalfOpen", failures |-> 0, opened_at |-> 0, successes |-> successes]

Max(a, b) == IF a >= b THEN a ELSE b

\* faulty variant: the limits are taken as given, 0 included
NewBreakerAsGiven(failure_threshold, open_duration, half_open_successes) ==
    [failure_threshold |-> failure_threshold,
     open_duration |-> open_duration,
     half_open_successes |-> half_open_successes]

\* CircuitBreaker::new
NewBreaker(failure_threshold, open_duration, half_open_successes) ==
    [failure_threshold |-> Max(failure_threshold, 1),
     open_duration |-> open_duration,
     half_open_successes |-> Max(half_open_successes, 1)]

\* Instant::elapsed of opened_at
Elapsed(opened_at, t) == t - opened_at

\* mutant: the open period is never over
ForwardedNever(state, t, conf) == state.tag # "Open"

\* CircuitBreaker::call, lines 66-77: whether the call is forwarded to f
Forwarded(state, t, conf) ==
    ~(state.tag = "Open" /\ Elapsed(state.opened_at, t) < conf.open_duration)

\* CircuitBreaker::call, lines 66-77: the state the admission check leaves
AfterAdmission(state, t, conf) ==
    IF state.tag = "Open" /\ Forwarded(state, t, conf) THEN HalfOpen(0) ELSE state

\* mutant: the update writes back the state read at admission (a lost update)
AfterResultStale(state, ok, t, conf, seen) ==
    IF seen.tag = "Closed" /\ ~ok
    THEN IF seen.failures + 1 >= conf.failure_threshold
         THEN Open(t) ELSE Closed(seen.failures + 1)
    ELSE state

\* mutant: a failure in HalfOpen keeps the old opening time
AfterResultNoReopen(state, ok, t, conf, seen) ==
    CASE state.tag = "Closed" /\ ok -> Closed(0)
      [] state.tag = "Closed" /\ ~ok ->
            IF state.failures + 1 >= conf.failure_threshold
            THEN Open(t) ELSE Closed(state.failures + 1)
      [] state.tag = "HalfOpen" /\ ok ->
            IF state.successes + 1 >= conf.half_open_successes
            THEN Closed(0) ELSE HalfOpen(state.successes + 1)
      [] state.tag = "HalfOpen" /\ ~ok -> Open(0)
      [] state.tag = "Open" -> state

\* mutant: a success in Closed leaves the failure count
AfterResultNoReset(state, ok, t, conf, seen) ==
    CASE state.tag = "Closed" /\ ok -> state
      [] state.tag = "Closed" /\ ~ok ->
            IF state.failures + 1 >= conf.failure_threshold
            THEN Open(t) ELSE Closed(state.failures + 1)
      [] state.tag = "HalfOpen" /\ ok ->
            IF state.successes + 1 >= conf.half_open_successes
            THEN Closed(0) ELSE HalfOpen(state.successes + 1)
      [] state.tag = "HalfOpen" /\ ~ok -> Open(t)
      [] state.tag = "Open" -> state

\* CircuitBreaker::call, lines 81-106: the state after the result of f, under
\* the mutex.  seen, the state the call read at admission, is not used.
AfterResult(state, ok, t, conf, seen) ==
    CASE state.tag = "Closed" /\ ok -> Closed(0)
      [] state.tag = "Closed" /\ ~ok ->
            IF state.failures + 1 >= conf.failure_threshold
            THEN Open(t) ELSE Closed(state.failures + 1)
      [] state.tag = "HalfOpen" /\ ok ->
            IF state.successes + 1 >= conf.half_open_successes
            THEN Closed(0) ELSE HalfOpen(state.successes + 1)
      [] state.tag = "HalfOpen" /\ ~ok -> Open(t)
      [] state.tag = "Open" -> state

IdleCaller == [pc |-> "idle", seen |-> Closed(0), at |-> 0, last |-> "none"]

\* a breaker built by CircuitBreaker::new with arguments from args
BreakerInitFrom(args) ==
    /\ \E ft, hs \in args : cbConf = NewBreaker(ft, OpenDuration, hs)
    /\ cb = Closed(0)
    /\ now = 0
    /\ callers = [c \in Callers |-> IdleCaller]
    /\ closedFails = 0

BreakerInit == BreakerInitFrom(0..MaxThreshold)

\* CircuitBreaker::call, lines 66-77: the admission check under the mutex.
\* A call refused with "circuit open" returns here; f is not invoked.
CbCall(c) ==
    /\ callers[c].pc = "idle"
    /\ cb' = AfterAdmission(cb, now, cbConf)
    /\ callers' = [callers EXCEPT ![c] =
                     [pc |-> IF Forwarded(cb, now, cbConf) THEN "running" ELSE "idle",
                      seen |-> cb, at |-> now,
                      last |-> IF Forwarded(cb, now, cbConf) THEN "none" ELSE "open"]]
    /\ UNCHANGED <<cbConf, now, closedFails>>
    /\ UNCHANGED notBreaker

\* CircuitBreaker::call, lines 79-108: f has finished with ok or an error and
\* the state is updated under the mutex
CbFinish(c, ok) ==
    /\ callers[c].pc = "running"
    /\ cb' = AfterResult(cb, ok, now, cbConf, callers[c].seen)
    /\ callers' = [callers EXCEPT ![c].pc = "idle",
                                  ![c].last = IF ok THEN "ok" ELSE "err"]
    /\ closedFails' = IF cb.tag = "Closed"
                      THEN (IF ok THEN 0 ELSE closedFails + 1)
                      ELSE IF cb.tag = "HalfOpen" /\ ok THEN 0 ELSE closedFails
    /\ UNCHANGED <<cbConf, now>>
    /\ UNCHANGED notBreaker

\* time passes
Tick ==
    /\ now < MaxTime
    /\ now' = now + 1
    /\ UNCHANGED <<cbConf, cb, callers, closedFails>>
    /\ UNCHANGED notBreaker

BreakerNext ==
    \/ \E c \in Callers : CbCall(c)
    \/ \E c \in Callers : \E ok \in BOOLEAN : CbFinish(c, ok)
    \/ Tick

(***************************************************************************)
(* TaskManager (task_manager.rs), without a rate limiter                   *)
(* (rate_limit_per_sec = None).  spawn takes &mut self, so one spawn runs  *)
(* at a time and the pool cannot be dropped or reaped during a spawn.      *)
(***************************************************************************)
TaskIds == 1..MaxSpawns

\* TaskManager::new
NewPool(max_inflight) ==
    [arg |-> max_inflight, max_inflight |-> Max(max_inflight, 1)]

\* the tasks started by spawn that have not ended
Live(ts) == {t \in TaskIds : ts[t] = "live"}

\* the tasks that have ended: completed, panicked or aborted
Ended(ts) == {t \in TaskIds : ts[t] \in {"done", "panicked", "cancelled"}}

\* mutant: the semaphore hands out permits it does not have
CanAcquireAlways(p) == TRUE

\* Semaphore::acquire_owned resolves when a permit is available
CanAcquire(p) == p > 0

\* mutant: a panicking task keeps its permit
ReleaseUnlessPanic(p, how) == IF how = "panicked" THEN p ELSE p + 1

\* the OwnedSemaphorePermit moved into the task is dropped with the task's
\* future, however the task ends
Release(p, how) == p + 1

\* a pool built by TaskManager::new with an argument from args
PoolInitFrom(args) ==
    /\ \E a \in args : poolConf = NewPool(a)
    /\ permits = poolConf.max_inflight
    /\ tasks = [t \in TaskIds |-> "unborn"]
    /\ join_set = {}
    /\ spawner = "idle"
    /\ nextTask = 1
    /\ dropped = FALSE
    /\ waited = FALSE

PoolInit == PoolInitFrom(0..MaxInflightArg)

\* TaskManager::spawn, lines 48-56: the call reaches acquire_owned().await
SpawnCall ==
    /\ spawner = "idle"
    /\ ~dropped
    /\ nextTask \in TaskIds
    /\ spawner' = "acquire"
    /\ waited' = (permits = 0)
    /\ UNCHANGED <<poolConf, permits, tasks, join_set, nextTask, dropped>>
    /\ UNCHANGED notPool

\* TaskManager::spawn, lines 56-65: a permit is acquired and the task is spawned
\* on the join set with the permit moved into it; spawn returns
SpawnAcquire ==
    /\ spawner = "acquire"
    /\ CanAcquire(permits)
    /\ permits' = permits - 1
    /\ tasks' = [tasks EXCEPT ![nextTask] = "live"]
    /\ join_set' = join_set \cup {nextTask}
    /\ nextTask' = nextTask + 1
    /\ spawner' = "idle"
    /\ UNCHANGED <<poolConf, dropped, waited>>
    /\ UNCHANGED notPool

\* lines 61-64: the task's future completes or panics; _permit is dropped
TaskEnd(t, how) ==
    /\ tasks[t] = "live"
    /\ tasks' = [tasks EXCEPT ![t] = how]
    /\ permits' = Release(permits, how)
    /\ UNCHANGED <<poolConf, join_set, spawner, nextTask, dropped, waited>>
    /\ UNCHANGED notPool

\* a task aborted by the drop of the join set is cancelled at its next
\* suspension point; its future, and the permit in it, is dropped
TaskAbort(t) ==
    /\ dropped
    /\ tasks[t] = "live"
    /\ tasks' = [tasks EXCEPT ![t] = "cancelled"]
    /\ permits' = Release(permits, "cancelled")
    /\ UNCHANGED <<poolConf, join_set, spawner, nextTask, dropped, waited>>
    /\ UNCHANGED notPool

\* TaskManager::reap: try_join_next takes every ended task off the join set
Reap ==
    /\ spawner = "idle"
    /\ ~dropped
    /\ join_set \cap Ended(tasks) # {}
    /\ join_set' = join_set \ Ended(tasks)
    /\ UNCHANGED <<poolConf, permits, tasks, spawner, nextTask, dropped, waited>>
    /\ UNCHANGED notPool

\* the TaskManager is dropped: it has no Drop of its own, its fields are
\* dropped, and the drop of a JoinSet aborts every task in the set
DropPool ==
    /\ spawner = "idle"
    /\ ~dropped
    /\ dropped' = TRUE
    /\ join_set' = {}
    /\ UNCHANGED <<poolConf, permits, tasks, spawner, nextTask, waited>>
    /\ UNCHANGED notPool

PoolNext ==
    \/ SpawnCall
    \/ SpawnAcquire
    \/ \E t \in TaskIds : \E how \in {"done", "panicked"} : TaskEnd(t, how)
    \/ \E t \in TaskIds : TaskAbort(t)
    \/ Reap
    \/ DropPool

(***************************************************************************)
(* TaskManager with a rate limiter (task_manager.rs 11-27, 48-65).  Time   *)
(* is counted in periods of the limiter's interval, 1 / rate_per_sec       *)
(* seconds, so one second is rlRate periods.  The pool has one permit.     *)
(***************************************************************************)
\* tokio::time::interval(period): the first tick is due at once
FirstDeadline(t) == t

\* Interval::tick with the default MissedTickBehavior::Burst: the next tick is
\* due one period after the deadline of this one, however late this one was
NextDeadline(deadline, t) == deadline + 1

RateInitFrom(rates) ==
    /\ rlRate \in rates
    /\ rlNow = 0
    /\ rlDeadline = FirstDeadline(0)
    /\ rlSpawner = "idle"
    /\ rlLive = 0
    /\ rlDone = <<>>

RateInit == RateInitFrom(1..MaxRate)

\* TaskManager::spawn, lines 48-53: the call reaches rate_limiter.acquire()
RlSpawnCall ==
    /\ rlSpawner = "idle"
    /\ Len(rlDone) < MaxSpawns
    /\ rlSpawner' = "tick"
    /\ UNCHANGED <<rlRate, rlNow, rlDeadline, rlLive, rlDone>>
    /\ UNCHANGED notRate

\* RateLimiter::acquire, lines 23-26: interval.tick() completes once its
\* deadline has come
RlTickDone ==
    /\ rlSpawner = "tick"
    /\ rlNow >= rlDeadline
    /\ rlDeadline' = NextDeadline(rlDeadline, rlNow)
    /\ rlSpawner' = "acquire"
    /\ UNCHANGED <<rlRate, rlNow, rlLive, rlDone>>
    /\ UNCHANGED notRate

\* TaskManager::spawn, lines 56-65: the permit is acquired, the task is
\* started and spawn returns
RlSpawnAcquire ==
    /\ rlSpawner = "acquire"
    /\ CanAcquire(NewPool(1).max_inflight - rlLive)
    /\ rlLive' = rlLive + 1
    /\ rlDone' = Append(rlDone, rlNow)
    /\ rlSpawner' = "idle"
    /\ UNCHANGED <<rlRate, rlNow, rlDeadline>>
    /\ UNCHANGED notRate

\* a task ends and returns its permit
RlTaskEnd ==
    /\ rlLive > 0
    /\ rlLive' = rlLive - 1
    /\ UNCHANGED <<rlRate, rlNow, rlDeadline, rlSpawner, rlDone>>
    /\ UNCHANGED notRate

\* one period of the interval passes
RlAdvance ==
    /\ rlNow < MaxTime
    /\ rlNow' = rlNow + 1
    /\ UNCHANGED <<rlRate, rlDeadline, rlSpawner, rlLive, rlDone>>
    /\ UNCHANGED notRate

RateNext ==
    \/ RlSpawnCall
    \/ RlTickDone
    \/ RlSpawnAcquire
    \/ RlTaskEnd
    \/ RlAdvance

(***************************************************************************)
(* retry_with_timeout and RetryPolicy (reliability.rs 10-34, 112-145).     *)
(* Durations are whole numbers of a time unit.  attempt is a usize, wider  *)
(* than the u32 factor; it stays far below the usize limit.                *)
(***************************************************************************)
\* the largest max_retries tried: attempt passes the width of the u32 factor
MaxRetries == 2 ^ FactorBits + 1

Min(a, b) == IF a <= b THEN a ELSE b

\* x as u32: the cast keeps the low bits
AsU32(x) == x % (2 ^ FactorBits)

\* 2_u32.saturating_pow(e)
SaturatingPow2(e) == IF e >= FactorBits THEN 2 ^ FactorBits - 1 ELSE 2 ^ e

\* Duration::saturating_mul
SaturatingMul(d, k) == Min(d * k, DurationMax)

\* RetryPolicy::backoff_delay
backoff_delay(p, a) ==
    IF a = 0 THEN 0
    ELSE Min(SaturatingMul(p.base_delay, SaturatingPow2(AsU32(a - 1))), p.max_delay)

\* faulty variant: one attempt fewer
ExhaustedEarly(a, p) == a + 1 >= p.max_retries

\* reliability.rs 126 and 131: no retry is left
Exhausted(a, p) == a >= p.max_retries

\* RetryPolicy::new
NewPolicy(max_retries, base_delay, max_delay) ==
    [max_retries |-> max_retries, base_delay |-> base_delay, max_delay |-> max_delay]

\* anyhow!("timeout"); the error of the k-th invocation of f is k >= 1
TimeoutError == 0

\* what one attempt can do: return a value, return an error, or run into the
\* per-attempt timeout
AttemptOutcomes == {"ok", "err", "timeout"}

RetryInitFrom(retries, delays) ==
    /\ \E m \in retries : \E b, d \in delays : policy = NewPolicy(m, b, d)
    /\ attempt = 0
    /\ rtPc = "run"
    /\ rtResult = <<>>
    /\ rtCalls = 0
    /\ rtOks = 0
    /\ rtDelays = <<>>

RetryInit == RetryInitFrom(0..MaxRetries, 0..MaxDelayArg)

\* retry_with_timeout, lines 123-143: one turn of the loop up to the sleep.
\* The k-th invocation of f returns value k or error k.
RtAttempt(out) ==
    /\ rtPc = "run"
    /\ rtCalls' = rtCalls + 1
    /\ rtOks' = IF out = "ok" THEN rtOks + 1 ELSE rtOks
    /\ IF out = "ok"
       THEN /\ rtResult' = <<"Ok", rtCalls + 1>>
            /\ rtPc' = "done"
            /\ UNCHANGED <<attempt, rtDelays>>
       ELSE IF Exhausted(attempt, policy)
            THEN /\ rtResult' = IF out = "timeout" THEN <<"Err", TimeoutError>>
                                                 ELSE <<"Err", rtCalls + 1>>
                 /\ rtPc' = "done"
                 /\ UNCHANGED <<attempt, rtDelays>>
            ELSE /\ attempt' = attempt + 1
                 /\ rtDelays' = Append(rtDelays, backoff_delay(policy, attempt + 1))
                 /\ rtPc' = IF backoff_delay(policy, attempt + 1) > 0 THEN "sleep" ELSE "run"
                 /\ UNCHANGED rtResult
    /\ UNCHANGED policy
    /\ UNCHANGED notRetry

\* retry_with_timeout, line 142: the sleep is over
RtWake ==
    /\ rtPc = "sleep"
    /\ rtPc' = "run"
    /\ UNCHANGED <<policy, attempt, rtResult, rtCalls, rtOks, rtDelays>>
    /\ UNCHANGED notRetry

RetryNext ==
    \/ \E out \in AttemptOutcomes : RtAttempt(out)
    \/ RtWake

(***************************************************************************)
(* Vibrator and VibratorEmitter (vibrator.rs) over a broker in local mode  *)
(* with auth_token "tok" and no allowed_sources.  Here emit is one step.   *)
(* The methods of VibratorEmitter are the code of Vibrator's, so an emit   *)
(* through the handle is the same step.                                    *)
(***************************************************************************)
VibNames == {"v1", "v2"}

\* the receivers a vibrator can hold, in the order of its resonate_on calls
VSlots == {1, 2}

\* VibratorConfig of each vibrator
VibConfig(v) ==
    [name |-> v, auth_token |-> "tok",
     noise_floor |-> IF v = "v1" THEN DefaultNoiseFloor ELSE HighNoiseFloor]

VibBrokerConfig == [auth_token |-> "tok", allowed_sources |-> {}]

\* faulty variant: a token the wave already carries is kept
WithTokenIfAbsent(w, token) ==
    IF token # None /\ w.auth_token = None THEN [w EXCEPT !.auth_token = token] ELSE w

\* Wave::set_auth_token under "if let Some(token) = &self.config.auth_token"
WithToken(w, token) == IF token # None THEN [w EXCEPT !.auth_token = token] ELSE w

\* the wave emit_wave builds: Wave::builder(channel).payload(..).source(name)
BuiltWave(v, id, name) ==
    [BaseWave(id) EXCEPT !.channel = name, !.source = v, !.auth_token = None]

\* the waves a caller hands to Vibrator::emit
HandedWaves(id) ==
    {[BaseWave(id) EXCEPT !.source = x[1], !.amplitude = x[2], !.auth_token = None] :
        x \in {<<None, AmpOne>>, <<None, LowAmp>>}}

\* who calls emit_wave, and on which channel
EmitWaveCalls == {<<"v1", NameA>>, <<"v2", NameA>>, <<"v1", NameB>>}

\* who calls emit with a wave handed to it
EmitCallers == {"v2"}

\* faulty variant: the floor is not applied
PassesNoiseFloorAlways(w, v) == TRUE

\* vibrator.rs 212 and 253: the wave is not below the noise floor
PassesNoiseFloor(w, v) == ~(w.amplitude < VibConfig(v).noise_floor)

\* faulty variant: the source is not looked at
NotOwnAlways(w, v) == TRUE

\* vibrator.rs 206-210 and 248-252: the wave's source is not the vibrator's name
NotOwn(w, v) == ~(w.source # None /\ w.source = VibConfig(v).name)

\* entry(name).or_insert_with(new) on the vibrators' broker
VEntry(name) == IF vreg[name] # 0 THEN vreg[name] ELSE Len(vq) + 1

\* the broadcast channel has lost its sender: no registry entry holds it
VClosed(ch) == \A n \in DOMAIN vreg : vreg[n] # ch

\* the receivers of a broadcast channel
VReceiverCount(ch) ==
    Cardinality({x \in VibNames \X VSlots :
                    x[2] <= Len(vib[x[1]].receivers) /\ vib[x[1]].receivers[x[2]].ch = ch})

\* faulty variant: a receiver is never reported as lagging
VLaggedNever(r) == FALSE

\* a receiver that has fallen more than the capacity behind
VLagged(r) == Len(vq[r.ch]) - r.next > Capacity

\* the wave a receiver reads next
VHead(r) == vq[r.ch][r.next + 1]

\* VibratorConfig.resonant_channels of each vibrator: the layouts tried
ResonantChannels(v) ==
    IF v = "v1" THEN {<<>>, <<NameA>>} ELSE {<<NameA>>, <<NameB, NameA>>}

\* the broadcast channel ids Aether::subscribe hands out when the vibrators
\* are built in the order v1, v2 on a fresh broker: the first name gets 1
FirstNames(l1, l2) == l1 \o l2

FreshEntry(names, name) ==
    IF \A i \in 1..Len(names) : names[i] # name THEN 0
    ELSE IF names[1] = name THEN 1 ELSE 2

\* a vibrator as Vibrator::new leaves it: resonate_on for each resonant channel,
\* the receiver at the tail of the still empty channel
NewVibrator(layout, names) ==
    [receivers |-> [k \in 1..Len(layout) |->
                       [channel |-> layout[k], ch |-> FreshEntry(names, layout[k]),
                        from |-> 0, next |-> 0]],
     pc |-> "idle", idx |-> 0, got |-> <<>>, dropped |-> {}, missed |-> {}]

VibInitFrom(layouts1, layouts2) ==
    \E l1 \in layouts1 : \E l2 \in layouts2 :
        /\ vreg = [n \in ValidNames |-> FreshEntry(FirstNames(l1, l2), n)]
        /\ vq = [c \in 1..Cardinality({n \in ValidNames :
                                          FreshEntry(FirstNames(l1, l2), n) # 0}) |-> <<>>]
        /\ vib = [v \in VibNames |->
                    NewVibrator(IF v = "v1" THEN l1 ELSE l2, FirstNames(l1, l2))]
        /\ vEmitted = <<>>

VibInit == VibInitFrom(ResonantChannels("v1"), ResonantChannels("v2"))

\* both vibrators built on channel a
VibBuilt == VibInitFrom({<<NameA>>}, {<<NameA>>})

\* Vibrator::emit (128-134) and, with api = "emit_wave", Vibrator::emit_wave
\* (137-148): the token is written into the wave, then Aether::emit runs its
\* checks, propagates the wave and sends it on the channel's entry
VibEmit(v, api, w) ==
    /\ Len(vEmitted) < MaxEmits
    /\ w.id = Len(vEmitted) + 1
    /\ LET t == WithToken(w, VibConfig(v).auth_token)
           ch == VEntry(w.channel)
           sent == Propagate(t) IN
       /\ EmitOutcome(VibBrokerConfig, t) = "Dispatch"
       /\ ch <= MaxChans
       /\ vreg' = [vreg EXCEPT ![w.channel] = ch]
       /\ vq' = IF ch > Len(vq) THEN Append(vq, <<>>)
                ELSE IF VReceiverCount(ch) > 0 THEN [vq EXCEPT ![ch] = Push(@, sent)]
                ELSE vq
       /\ vEmitted' = Append(vEmitted, [by |-> v, api |-> api, wave |-> sent])
    /\ UNCHANGED vib
    /\ UNCHANGED notVib

\* Aether::remove_channel on the vibrators' broker
VibRemoveChannel(name) ==
    /\ vreg[name] # 0
    /\ vreg' = [vreg EXCEPT ![name] = 0]
    /\ UNCHANGED <<vq, vib, vEmitted>>
    /\ UNCHANGED notVib

\* the calls of different vibrators touch disjoint receivers, so they are run
\* one at a time
OthersIdle(v) == \A u \in VibNames \ {v} : vib[u].pc = "idle"

\* Vibrator::receive, lines 195-201: None without receivers, else the sweep
VibReceiveCall(v) ==
    /\ vib[v].pc = "idle"
    /\ OthersIdle(v)
    /\ vib' = IF vib[v].receivers = <<>>
              THEN vib
              ELSE [vib EXCEPT ![v].pc = "receive", ![v].idx = 1]
    /\ UNCHANGED <<vreg, vq, vEmitted>>
    /\ UNCHANGED notVib

\* the receiver after idx in the sweep of receive; after the last one the
\* call sleeps 10 ms and sweeps again
NextInSweep(v) == IF vib[v].idx < Len(vib[v].receivers) THEN vib[v].idx + 1 ELSE 1

\* Vibrator::receive, lines 202-237: try_recv on one receiver of the sweep
VibReceiveStep(v) ==
    /\ vib[v].pc = "receive"
    /\ LET k == vib[v].idx
           r == vib[v].receivers[k] IN
       IF VLagged(r)
       THEN vib' = [vib EXCEPT
                      ![v].receivers[k].next = Len(vq[r.ch]) - Capacity,
                      ![v].missed = @ \cup {vq[r.ch][j].id :
                                              j \in (r.next + 1)..(Len(vq[r.ch]) - Capacity)},
                      ![v].idx = NextInSweep(v)]
       ELSE IF r.next = Len(vq[r.ch])
       THEN vib' = [vib EXCEPT ![v].idx = NextInSweep(v)]
       ELSE IF NotOwn(VHead(r), v) /\ PassesNoiseFloor(VHead(r), v)
       THEN vib' = [vib EXCEPT
                      ![v].receivers[k].next = @ + 1,
                      ![v].got = Append(@, VHead(r).id),
                      ![v].pc = "idle", ![v].idx = 0]
       ELSE vib' = [vib EXCEPT
                      ![v].receivers[k].next = @ + 1,
                      ![v].dropped = @ \cup {VHead(r).id},
                      ![v].idx = NextInSweep(v)]
    /\ UNCHANGED <<vreg, vq, vEmitted>>
    /\ UNCHANGED notVib

\* the first receiver of v registered under the channel name
FirstReceiverOn(v, name) ==
    CHOOSE k \in 1..Len(vib[v].receivers) :
        /\ vib[v].receivers[k].channel = name
        /\ \A j \in 1..(k - 1) : vib[v].receivers[j].channel # name

\* Vibrator::receive_from, lines 242-245 and 263: the receiver of the channel
\* is looked up; None when the vibrator has none
VibReceiveFromCall(v, name) ==
    /\ vib[v].pc = "idle"
    /\ OthersIdle(v)
    /\ vib' = IF \E k \in 1..Len(vib[v].receivers) : vib[v].receivers[k].channel = name
              THEN [vib EXCEPT ![v].pc = "receive_from", ![v].idx = FirstReceiverOn(v, name)]
              ELSE vib
    /\ UNCHANGED <<vreg, vq, vEmitted>>
    /\ UNCHANGED notVib

\* Vibrator::receive_from, lines 245-260: one recv().await on the receiver;
\* on an empty channel that still has its sender the call waits
VibReceiveFromStep(v) ==
    /\ vib[v].pc = "receive_from"
    /\ LET k == vib[v].idx
           r == vib[v].receivers[k] IN
       /\ r.next = Len(vq[r.ch]) => VClosed(r.ch)
       /\ IF VLagged(r)
          THEN vib' = [vib EXCEPT
                         ![v].receivers[k].next = Len(vq[r.ch]) - Capacity,
                         ![v].missed = @ \cup {vq[r.ch][j].id :
                                                 j \in (r.next + 1)..(Len(vq[r.ch]) - Capacity)},
                         ![v].pc = "idle", ![v].idx = 0]
          ELSE IF r.next = Len(vq[r.ch])
          THEN vib' = [vib EXCEPT ![v].pc = "idle", ![v].idx = 0]
          ELSE IF NotOwn(VHead(r), v) /\ PassesNoiseFloor(VHead(r), v)
          THEN vib' = [vib EXCEPT
                         ![v].receivers[k].next = @ + 1,
                         ![v].got = Append(@, VHead(r).id),
                         ![v].pc = "idle", ![v].idx = 0]
          ELSE vib' = [vib EXCEPT
                         ![v].receivers[k].next = @ + 1,
                         ![v].dropped = @ \cup {VHead(r).id}]
    /\ UNCHANGED <<vreg, vq, vEmitted>>
    /\ UNCHANGED notVib

VibNext ==
    \/ \E x \in EmitWaveCalls :
          VibEmit(x[1], "emit_wave", BuiltWave(x[1], Len(vEmitted) + 1, x[2]))
    \/ \E v \in EmitCallers : \E w \in HandedWaves(Len(vEmitted) + 1) : VibEmit(v, "emit", w)
    \/ \E n \in ValidNames : VibRemoveChannel(n)
    \/ \E v \in VibNames : VibReceiveCall(v)
    \/ \E v \in VibNames : VibReceiveStep(v)
    \/ \E v \in VibNames : \E n \in ValidNames : VibReceiveFromCall(v, n)
    \/ \E v \in VibNames : VibReceiveFromStep(v)

(***************************************************************************)
(* The checks of Aether::emit (aether.rs 146-193) as a function of the     *)
(* configuration and the wave, reached directly and through Vibrator::emit *)
(* (vibrator.rs 128-134).                                                  *)
(***************************************************************************)
\* AetherConfig: auth_token and allowed_sources, each absent or set
CheckConfigs ==
    [auth_token : {None, "tok"}, allowed_sources : {{}, {"v1", "v2"}}]

\* VibratorConfig.auth_token: absent, the broker's, another one
VibTokens == {None, "tok", "bad"}

\* the waves handed to emit: every combination of the fields the checks read
CheckWaves ==
    [id : {1},
     channel : NameInputs,
     payload_len : {1, MaxPayloadBytes + 1},
     payload_bytes : {<<>>, <<0>>, <<MaxPayloadBytes + 1>>},
     amplitude : {AmpOne, DefaultMinAmplitude},
     source : {None, "v1", "v3"},
     auth_token : {None, "tok", "bad"},
     propagation_count : {0, MaxPropagation}]

\* no call has been made
NoCall == [api |-> "none", sent |-> NoWave, result |-> "none"]

ChecksInitFrom(cfgs, tokens, waves) ==
    /\ ckCfg \in cfgs
    /\ ckVibToken \in tokens
    /\ ckWave \in waves
    /\ ckOut = NoCall

ChecksInit == ChecksInitFrom(CheckConfigs, VibTokens, CheckWaves)

\* one configuration, one token, one wave
ChecksBuilt == ChecksInitFrom({VibBrokerConfig}, {"tok"}, {BaseWave(1)})

\* Aether::emit called with the wave
CkEmit ==
    /\ ckOut = NoCall
    /\ ckOut' = [api |-> "emit", sent |-> ckWave,
                 result |-> EmitResult(EmitOutcome(ckCfg, ckWave))]
    /\ UNCHANGED <<ckCfg, ckVibToken, ckWave>>
    /\ UNCHANGED notChecks

\* Vibrator::emit (and VibratorEmitter::emit, 282-288) called with the wave:
\* the configured token is written into it, then Aether::emit
CkVibratorEmit ==
    /\ ckOut = NoCall
    /\ LET t == WithToken(ckWave, ckVibToken) IN
       ckOut' = [api |-> "vibrator", sent |-> t,
                 result |-> EmitResult(EmitOutcome(ckCfg, t))]
    /\ UNCHANGED <<ckCfg, ckVibToken, ckWave>>
    /\ UNCHANGED notChecks

ChecksNext ==
    \/ CkEmit
    \/ CkVibratorEmit

(***************************************************************************)
(* WaveStore (persistence.rs) and the part of Aether::emit that uses it    *)
(* (aether.rs 207-305, local mode), with emit calls on clones of one       *)
(* broker running on different threads.  The waves are those that pass     *)
(* the checks of emit; a wave is its identity.  Keys are KeyBits binary    *)
(* digits, most significant first, where the code has eight bytes.  An     *)
(* Option is <<>> for None and <<x>> for Some(x); an absent entry of meta  *)
(* is the empty byte string.                                               *)
(***************************************************************************)
PEmitters == {"p1", "p2"}

\* u64::to_be_bytes
RECURSIVE ToBeBytes(_, _)
ToBeBytes(i, width) ==
    IF width = 0 THEN <<>> ELSE Append(ToBeBytes(i \div 2, width - 1), i % 2)

\* u64::from_be_bytes
RECURSIVE FromBeBytes(_)
FromBeBytes(k) ==
    IF k = <<>> THEN 0 ELSE 2 * FromBeBytes(SubSeq(k, 1, Len(k) - 1)) + k[Len(k)]

\* the order of the keys of a sled Tree: lexicographic on the bytes
RECURSIVE KeyLess(_, _)
KeyLess(a, b) ==
    IF a = <<>> THEN b # <<>>
    ELSE IF b = <<>> THEN FALSE
    ELSE IF a[1] # b[1] THEN a[1] < b[1]
    ELSE KeyLess(Tail(a), Tail(b))

\* Tree::insert: the value under the key is replaced
TreeInsert(tree, key, value) ==
    {e \in tree : e.key # key} \cup {[key |-> key, value |-> value]}

\* the values of the entries of a tree in the order of their keys
RECURSIVE InKeyOrder(_)
InKeyOrder(tree) ==
    IF tree = {} THEN <<>>
    ELSE LET first == CHOOSE e \in tree : \A o \in tree : o = e \/ KeyLess(e.key, o.key)
         IN <<first.value>> \o InKeyOrder(tree \ {first})

\* WaveStore::read_from: log.range(start_index.to_be_bytes()..)
read_from(tree, start_index) ==
    InKeyOrder({e \in tree : ~KeyLess(e.key, ToBeBytes(start_index, KeyBits))})

\* WaveStore::next_index
next_index(m) == IF m.last_index # <<>> THEN FromBeBytes(m.last_index) + 1 ELSE 0

\* Aether::recover_waves
recover_waves(st, tree, m) ==
    IF st
    THEN read_from(tree, IF m.snapshot # <<>> THEN m.snapshot[1].last_index + 1 ELSE 0)
    ELSE <<>>

\* an emit call that is not running
IdlePersist == [pc |-> "idle", wave |-> 0, index |-> 0, persisted_index |-> <<>>]

\* the waves whose append had returned when this wave's append was called, and
\* the index its append returned
NoAppend == [after |-> {}, index |-> <<>>]

\* the waves whose append has returned
Appended == {w \in 1..MaxAppends : appends[w].index # <<>>}

StoreInitFrom(stores, intervals) ==
    /\ store \in stores
    /\ snapshot_interval \in intervals
    /\ log = {}
    /\ meta = [last_index |-> <<>>, snapshot |-> <<>>]
    /\ pstats = [total_waves |-> 0]
    /\ pem = [e \in PEmitters |-> IdlePersist]
    /\ pnext = 1
    /\ appends = [w \in 1..MaxAppends |-> NoAppend]
    /\ recovered = [calls |-> 0, waves |-> <<>>]

StoreInit == StoreInitFrom(BOOLEAN, 0..MaxInterval)

\* a broker without a store
StoreBuilt == StoreInitFrom({FALSE}, {0})

\* Aether::emit, lines 207-221: the wave has passed the checks; with a store
\* append_wave is called, without one persisted_index is None
PEmitCall(e) ==
    /\ pem[e].pc = "idle"
    /\ pnext <= MaxAppends
    /\ pnext' = pnext + 1
    /\ IF store
       THEN /\ pem' = [pem EXCEPT ![e] = [IdlePersist EXCEPT !.pc = "next_index", !.wave = pnext]]
            /\ appends' = [appends EXCEPT ![pnext].after = Appended]
       ELSE /\ pem' = [pem EXCEPT ![e] = [IdlePersist EXCEPT !.pc = "send", !.wave = pnext]]
            /\ UNCHANGED appends
    /\ UNCHANGED <<store, snapshot_interval, log, meta, pstats, recovered>>
    /\ UNCHANGED notStore

\* WaveStore::append_wave, line 38: let index = self.next_index()?
AppendNextIndex(e) ==
    /\ pem[e].pc = "next_index"
    /\ pem' = [pem EXCEPT ![e].pc = "log_insert", ![e].index = next_index(meta)]
    /\ UNCHANGED <<store, snapshot_interval, log, meta, pstats, pnext, appends, recovered>>
    /\ UNCHANGED notStore

\* WaveStore::append_wave, lines 39-41: self.log.insert(key, value)
AppendLogInsert(e) ==
    /\ pem[e].pc = "log_insert"
    /\ log' = TreeInsert(log, ToBeBytes(pem[e].index, KeyBits), pem[e].wave)
    /\ pem' = [pem EXCEPT ![e].pc = "meta_insert"]
    /\ UNCHANGED <<store, snapshot_interval, meta, pstats, pnext, appends, recovered>>
    /\ UNCHANGED notStore

\* WaveStore::append_wave, lines 42-43: self.meta.insert(KEY_LAST_INDEX, ..)
\* and Ok(index)
AppendMetaInsert(e) ==
    /\ pem[e].pc = "meta_insert"
    /\ meta' = [meta EXCEPT !.last_index = ToBeBytes(pem[e].index, KeyBits)]
    /\ pem' = [pem EXCEPT ![e].pc = "send", ![e].persisted_index = <<pem[e].index>>]
    /\ appends' = [appends EXCEPT ![pem[e].wave].index = <<pem[e].index>>]
    /\ UNCHANGED <<store, snapshot_interval, log, pstats, pnext, recovered>>
    /\ UNCHANGED notStore

\* Aether::emit, lines 258-272 and 301-305: sender.send(wave); ok is whether
\* the channel has a receiver.  Without one emit returns here.
PSend(e, ok) ==
    /\ pem[e].pc = "send"
    /\ pem' = [pem EXCEPT ![e] = IF ok THEN [@ EXCEPT !.pc = "stats"] ELSE IdlePersist]
    /\ UNCHANGED <<store, snapshot_interval, log, meta, pstats, pnext, appends, recovered>>
    /\ UNCHANGED notStore

\* faulty variant: the snapshot holds the count before the increment
AetherSnapshotBefore(index, stats) ==
    [last_index |-> index, stats |-> [stats EXCEPT !.total_waves = @ - 1]]

\* the snapshot emit saves
AetherSnapshot(index, stats) == [last_index |-> index, stats |-> stats]

\* Aether::emit, lines 281-299: under the write lock of stats, total_waves is
\* incremented and, at a multiple of snapshot_interval, the snapshot is saved
PStats(e) ==
    /\ pem[e].pc = "stats"
    /\ pstats' = [pstats EXCEPT !.total_waves = @ + 1]
    /\ meta' = IF /\ pem[e].persisted_index # <<>>
                  /\ store
                  /\ snapshot_interval > 0
                  /\ pstats'.total_waves % snapshot_interval = 0
               THEN [meta EXCEPT !.snapshot = <<AetherSnapshot(pem[e].persisted_index[1], pstats')>>]
               ELSE meta
    /\ pem' = [pem EXCEPT ![e] = IdlePersist]
    /\ UNCHANGED <<store, snapshot_interval, log, pnext, appends, recovered>>
    /\ UNCHANGED notStore

\* Aether::recover_waves
Recover ==
    /\ recovered' = [calls |-> 1 - recovered.calls, waves |-> recover_waves(store, log, meta)]
    /\ UNCHANGED <<store, snapshot_interval, log, meta, pstats, pem, pnext, appends>>
    /\ UNCHANGED notStore

StoreNext ==
    \/ \E e \in PEmitters : PEmitCall(e)
    \/ \E e \in PEmitters : AppendNextIndex(e)
    \/ \E e \in PEmitters : AppendLogInsert(e)
    \/ \E e \in PEmitters : AppendMetaInsert(e)
    \/ \E e \in PEmitters : \E ok \in BOOLEAN : PSend(e, ok)
    \/ \E e \in PEmitters : PStats(e)
    \/ Recover

(***************************************************************************)
(* The broker with a record of the removals: the steps are those of the    *)
(* broker; remove_channel also notes how many waves the broadcast channel  *)
(* of the removed entry held.                                              *)
(***************************************************************************)
RemovalInit == removedAt = [c \in 1..MaxChans |-> -1]

RmEmitCall(e, w) == EmitCallStep(e, w) /\ UNCHANGED removedAt /\ UNCHANGED notBrokerRemoval

RmEmitSend(e) == EmitSendStep(e) /\ UNCHANGED removedAt /\ UNCHANGED notBrokerRemoval

RmEmitStats(e) == EmitStatsStep(e) /\ UNCHANGED removedAt /\ UNCHANGED notBrokerRemoval

RmSubscribe(name) == SubscribeStep(name) /\ UNCHANGED removedAt /\ UNCHANGED notBrokerRemoval

RmRemoveChannel(name) ==
    /\ RemoveChannelStep(name)
    /\ removedAt' = [removedAt EXCEPT ![channels[name]] = Len(queue[channels[name]])]
    /\ UNCHANGED notBrokerRemoval

RmClear == ClearStep /\ UNCHANGED removedAt /\ UNCHANGED notBrokerRemoval

RmRecv(i) == RecvStep(i) /\ UNCHANGED removedAt /\ UNCHANGED notBrokerRemoval

RemovalNext ==
    \/ \E e \in Emitters : \E w \in EmitInputs(nextId) : RmEmitCall(e, w)
    \/ \E e \in Emitters : RmEmitSend(e)
    \/ \E e \in Emitters : RmEmitStats(e)
    \/ \E n \in SubscribeNames : RmSubscribe(n)
    \/ \E n \in SubscribeNames : RmRemoveChannel(n)
    \/ RmClear
    \/ \E i \in Receivers : RmRecv(i)

(***************************************************************************)
(* Aether in transport mode (use_nats = true): emit publishes (aether.rs   *)
(* 223-256), subscribe spawns a bridge task for the entry it creates       *)
(* (311-368), the client is connected on first use (437-454).  A wave is   *)
(* its identity and its schema_version; a message of the transport is a    *)
(* wave and whether its bytes decode as one.  Other processes publish on   *)
(* the same subjects.                                                      *)
(***************************************************************************)
\* current_schema_version() of wave.rs
CurrentSchemaVersion == 1

\* the schema versions of the waves published: the current one and a later one
SchemaVersions == {CurrentSchemaVersion, CurrentSchemaVersion + 1}

\* Wave::is_compatible
is_compatible(w) == w.schema_version <= CurrentSchemaVersion

\* the channel names subscribe is called with, and those emit publishes on
TSubNames == {NameA, <<"*">>}
TPubNames == {NameA, NameB}

\* nats_subject: "*" becomes the catch-all token
nats_subject(name) == IF name = <<"*">> THEN <<">">> ELSE name

\* whether a subscription on sub gets a message published on subject
SubjectMatches(sub, subject) == sub = <<">">> \/ sub = subject

\* Aether::nats_client: the cell's value if set; otherwise the TLS
\* precondition, then async_nats::connect, whose outcome is connects
NatsClient(conf, cell, connects) ==
    IF cell = "set" THEN [ok |-> TRUE, cell |-> "set"]
    ELSE IF conf.tls_required /\ ~conf.url_tls THEN [ok |-> FALSE, cell |-> "unset"]
    ELSE IF connects THEN [ok |-> TRUE, cell |-> "set"]
    ELSE [ok |-> FALSE, cell |-> "unset"]

\* the variant of TransportResult in which a failure to get the client is
\* reported as a transmission failure
TransportResultAllTransmission(serializes, client_ok, publishes) ==
    IF serializes /\ client_ok /\ publishes THEN "Ok" ELSE "TransmissionFailed"

\* what emit returns in transport mode, lines 223-256: serde_json::to_vec,
\* then nats_client()?, then client.publish
TransportResult(serializes, client_ok, publishes) ==
    IF ~serializes THEN "TransmissionFailed"
    ELSE IF ~client_ok THEN "ConnectionFailed"
    ELSE IF ~publishes THEN "TransmissionFailed"
    ELSE "Ok"

\* the step of emit at which it failed
TransportCause(serializes, client_ok, publishes) ==
    IF ~serializes THEN "serialize"
    ELSE IF ~client_ok THEN "client"
    ELSE IF ~publishes THEN "publish"
    ELSE "none"

\* the server hands a published message to every active subscription on it
Deliver(bs, subject, msg) ==
    [c \in DOMAIN bs |->
        IF bs[c].state = "listening" /\ SubjectMatches(bs[c].subject, subject)
        THEN [bs[c] EXCEPT !.inbox = Append(@, msg)]
        ELSE bs[c]]

\* no bridge task; a bridge task as tokio::spawn starts it
NoBridge == [state |-> "none", subject |-> <<>>, inbox |-> <<>>]
NewBridge(subject) == [state |-> "subscribing", subject |-> subject, inbox |-> <<>>]

\* the receivers of a broadcast channel
TReceiverCount(ch) == Cardinality({i \in DOMAIN tcursors : tcursors[i].ch = ch})

NoEmit == [cause |-> "none", result |-> "none", counted |-> 0]

TransportInitFrom(confs) ==
    /\ nats_conf \in confs
    /\ nats_client = "unset"
    /\ tchannels = [n \in TSubNames |-> 0]
    /\ tqueue = <<>>
    /\ bridges = <<>>
    /\ tcursors = <<>>
    /\ tstats = [total_waves |-> 0]
    /\ tnext = 1
    /\ tlast = NoEmit

\* the default configuration, and one that requires TLS with a plain URL
TransportInit == TransportInitFrom([tls_required : BOOLEAN, url_tls : {FALSE}])

\* one configuration
TransportBuilt == TransportInitFrom({[tls_required |-> FALSE, url_tls |-> FALSE]})

\* Aether::emit in transport mode, lines 223-256, for a wave that has passed
\* the checks: serialize, get the client, publish, count
TEmit(name, version, serializes, connects, publishes) ==
    /\ tnext <= MaxPublishes
    /\ LET client == NatsClient(nats_conf, nats_client, connects)
           result == TransportResult(serializes, client.ok, publishes) IN
       /\ tnext' = IF result = "Ok" THEN tnext + 1 ELSE tnext
       /\ nats_client' = IF serializes THEN client.cell ELSE nats_client
       /\ bridges' = IF result = "Ok"
                     THEN Deliver(bridges, nats_subject(name),
                                  [decodes |-> TRUE, schema_version |-> version, id |-> tnext])
                     ELSE bridges
       /\ tstats' = IF result = "Ok" THEN [tstats EXCEPT !.total_waves = @ + 1] ELSE tstats
       /\ tlast' = [cause |-> TransportCause(serializes, client.ok, publishes),
                    result |-> result,
                    counted |-> IF result = "Ok" THEN 1 ELSE 0]
    /\ UNCHANGED <<nats_conf, tchannels, tqueue, tcursors>>
    /\ UNCHANGED notTransport

\* another process publishes on a subject: bytes that decode as a wave of
\* some schema version, or (version 0) bytes that do not
RemotePublish(name, version) ==
    /\ tnext <= MaxPublishes
    /\ tnext' = tnext + 1
    /\ bridges' = Deliver(bridges, nats_subject(name),
                          [decodes |-> version > 0, schema_version |-> version, id |-> tnext])
    /\ UNCHANGED <<nats_conf, nats_client, tchannels, tqueue, tcursors, tstats, tlast>>
    /\ UNCHANGED notTransport

\* Aether::subscribe in transport mode, lines 311-368, under the write lock:
\* the entry is looked up or created; for a created entry the client is
\* fetched and, if that succeeds, the bridge task is spawned
TSubscribe(name, connects) ==
    /\ Len(tcursors) < MaxTSubs
    /\ LET created == tchannels[name] = 0
           ch == IF created THEN Len(tqueue) + 1 ELSE tchannels[name]
           client == NatsClient(nats_conf, nats_client, connects) IN
       /\ tchannels' = [tchannels EXCEPT ![name] = ch]
       /\ tqueue' = IF created THEN Append(tqueue, <<>>) ELSE tqueue
       /\ nats_client' = IF created THEN client.cell ELSE nats_client
       /\ bridges' = IF ~created THEN bridges
                     ELSE IF client.ok THEN Append(bridges, NewBridge(nats_subject(name)))
                     ELSE Append(bridges, NoBridge)
       /\ tcursors' = Append(tcursors,
                         [ch |-> ch,
                          next |-> IF created THEN 0 ELSE Len(tqueue[ch]),
                          yielded |-> <<>>])
    /\ UNCHANGED <<nats_conf, tstats, tnext, tlast>>
    /\ UNCHANGED notTransport

\* the bridge task, line 340: client.subscribe(subject).await
BridgeSubscribe(ch, ok) ==
    /\ ch \in DOMAIN bridges
    /\ bridges[ch].state = "subscribing"
    /\ bridges' = [bridges EXCEPT ![ch].state = IF ok THEN "listening" ELSE "failed"]
    /\ UNCHANGED <<nats_conf, nats_client, tchannels, tqueue, tcursors, tstats, tnext, tlast>>
    /\ UNCHANGED notTransport

\* the bridge task, lines 342-351: the next message is decoded and, if it
\* decodes, sent on the entry's sender; send fails without receivers
BridgeMessage(ch) ==
    /\ ch \in DOMAIN bridges
    /\ bridges[ch].state = "listening"
    /\ bridges[ch].inbox # <<>>
    /\ LET msg == Head(bridges[ch].inbox) IN
       tqueue' = IF msg.decodes /\ TReceiverCount(ch) > 0
                 THEN [tqueue EXCEPT ![ch] =
                         Push(@, [schema_version |-> msg.schema_version, id |-> msg.id])]
                 ELSE tqueue
    /\ bridges' = [bridges EXCEPT ![ch].inbox = Tail(@)]
    /\ UNCHANGED <<nats_conf, nats_client, tchannels, tcursors, tstats, tnext, tlast>>
    /\ UNCHANGED notTransport

\* a read on a receiver: Lagged when more than the capacity behind, else the
\* next wave
TRecv(i) ==
    /\ i \in DOMAIN tcursors
    /\ LET c == tcursors[i]
           tail == Len(tqueue[c.ch]) IN
       /\ c.next < tail
       /\ tcursors' = IF tail - c.next > Capacity
                      THEN [tcursors EXCEPT ![i].next = tail - Capacity]
                      ELSE [tcursors EXCEPT ![i].next = @ + 1,
                                            ![i].yielded = Append(@, tqueue[c.ch][c.next + 1])]
    /\ UNCHANGED <<nats_conf, nats_client, tchannels, tqueue, bridges, tstats, tnext, tlast>>
    /\ UNCHANGED notTransport

TransportNext ==
    \/ \E n \in TPubNames : \E v \in SchemaVersions : \E s, c, p \in BOOLEAN : TEmit(n, v, s, c, p)
    \/ \E n \in TPubNames : \E v \in SchemaVersions \cup {0} : RemotePublish(n, v)
    \/ \E n \in TSubNames : \E c \in BOOLEAN : TSubscribe(n, c)
    \/ \E ch \in 1..MaxTSubs : \E ok \in BOOLEAN : BridgeSubscribe(ch, ok)
    \/ \E ch \in 1..MaxTSubs : BridgeMessage(ch)
    \/ \E i \in 1..MaxTSubs : TRecv(i)

(***************************************************************************)
(* Channel::matches (channel.rs 32-50).  A channel is the list of segments *)
(* Channel::new splits its name into at the dots; the name is "*" exactly  *)
(* when the list is <<"*">>.                                               *)
(***************************************************************************)
SegmentAlphabet == {"a", "b", "*"}

SegmentLists == UNION {[1..n -> SegmentAlphabet] : n \in 1..MaxSegments}

\* the variant of slice::starts_with that compares only the positions both
\* lists have
StartsWithLoose(s, prefix) ==
    \A k \in 1..Len(prefix) : k <= Len(s) => s[k] = prefix[k]

\* slice::starts_with
StartsWith(s, prefix) ==
    /\ Len(prefix) <= Len(s)
    /\ \A k \in 1..Len(prefix) : s[k] = prefix[k]

\* the variant of matches that applies the prefix rule only to a pattern
\* with fewer segments than the target
matchesShorterOnly(self, pattern) ==
    IF pattern = <<"*">> THEN TRUE
    ELSE IF Len(self) # Len(pattern)
         THEN IF pattern[Len(pattern)] = "*" /\ Len(pattern) < Len(self)
              THEN StartsWith(self, SubSeq(pattern, 1, Len(pattern) - 1))
              ELSE FALSE
         ELSE \A k \in 1..Len(self) : pattern[k] = "*" \/ self[k] = pattern[k]

\* Channel::matches
matches(self, pattern) ==
    IF pattern = <<"*">> THEN TRUE
    ELSE IF Len(self) # Len(pattern)
         THEN IF pattern[Len(pattern)] = "*"
              THEN StartsWith(self, SubSeq(pattern, 1, Len(pattern) - 1))
              ELSE FALSE
         ELSE \A k \in 1..Len(self) : pattern[k] = "*" \/ self[k] = pattern[k]

MatchInitFrom(targets, patterns) ==
    /\ mtarget \in targets
    /\ mpattern \in patterns
    /\ mout = <<>>

MatchInit == MatchInitFrom(SegmentLists, SegmentLists)

\* one pair: "a.b" against "a.*"
MatchBuilt == MatchInitFrom({<<"a", "b">>}, {<<"a", "*">>})

\* the call mtarget.matches(&mpattern)
Match ==
    /\ mout = <<>>
    /\ mout' = <<matches(mtarget, mpattern)>>
    /\ UNCHANGED <<mtarget, mpattern>>
    /\ UNCHANGED notMatch

MatchNext == Match

(***************************************************************************)
(* Frequency hopping (channel.rs 57-98, vibrator.rs 121-125 and 162-173).  *)
(* u64 is WordBits wide here; a hopped channel "<name>.hop<idx>" is the    *)
(* pair of the base and idx.                                               *)
(***************************************************************************)
Word == 2 ^ WordBits

\* the bytes of a name: its segments joined by dots
ByteOf(seg) == IF seg = "a" THEN 97 ELSE IF seg = "b" THEN 98 ELSE 42

RECURSIVE NameBytes(_)
NameBytes(segs) ==
    IF Len(segs) = 1 THEN <<ByteOf(segs[1])>>
    ELSE NameBytes(SubSeq(segs, 1, Len(segs) - 1)) \o <<46, ByteOf(segs[Len(segs)])>>

\* Channel::hop_seed: fold acc.wrapping_mul(131).wrapping_add(b)
RECURSIVE FoldSeed(_, _)
FoldSeed(acc, bytes) ==
    IF bytes = <<>> THEN acc
    ELSE FoldSeed((((acc * 131) % Word) + Head(bytes)) % Word, Tail(bytes))

hop_seed(base) == FoldSeed(0, NameBytes(base))

\* Channel::hop
hop(base, hop_index, hop_count) ==
    [base |-> base, hop |-> hop_index % Max(hop_count, 1)]

\* Channel::hop_set, as the set of its elements
hop_set(base, hop_count) ==
    {hop(base, idx, Max(hop_count, 1)) : idx \in 0..(Max(hop_count, 1) - 1)}

\* the variant of hop_index_at_ms that does not reduce modulo the count
hop_index_at_msUnreduced(base, timestamp_ms, hop_count, hop_interval_ms) ==
    ((timestamp_ms \div Max(hop_interval_ms, 1)) + hop_seed(base)) % Word

\* Channel::hop_index_at_ms
hop_index_at_ms(base, timestamp_ms, hop_count, hop_interval_ms) ==
    (((timestamp_ms \div Max(hop_interval_ms, 1)) + hop_seed(base)) % Word)
        % Max(hop_count, 1)

\* Channel::hop_at_ms
hop_at_ms(base, timestamp_ms, hop_count, hop_interval_ms) ==
    hop(base, hop_index_at_ms(base, timestamp_ms, hop_count, hop_interval_ms), hop_count)

HopBases == {<<"a">>, <<"a", "b">>}

HopInitFrom(bases, counts, intervals) ==
    /\ hbase \in bases
    /\ hn \in counts
    /\ hi \in intervals
    /\ hsub = <<>>
    /\ hwave = <<>>

HopInit == HopInitFrom(HopBases, 0..MaxHopCount, 0..MaxIntervalMs)

HopBuilt == HopInitFrom({<<"a">>}, {MaxHopCount}, {1})

\* Vibrator::resonate_hopping(base, n): a receiver on each channel of hop_set(n)
ResonateHopping(n) ==
    /\ hsub = <<>>
    /\ hwave = <<>>
    /\ hsub' = <<n>>
    /\ UNCHANGED <<hbase, hn, hi, hwave>>
    /\ UNCHANGED notHop

\* Vibrator::emit_time_hopping_wave at system time now_ms: the wave goes to the
\* channel hop_now gives, and to the subscriber if it holds a receiver on it
EmitTimeHoppingWave(now_ms) ==
    /\ hwave = <<>>
    /\ LET channel == hop_at_ms(hbase, now_ms, hn, hi) IN
       hwave' = <<[at |-> now_ms,
                   index |-> hop_index_at_ms(hbase, now_ms, hn, hi),
                   channel |-> channel,
                   received |-> hsub # <<>> /\ channel \in hop_set(hbase, hsub[1])]>>
    /\ UNCHANGED <<hbase, hn, hi, hsub>>
    /\ UNCHANGED notHop

HopNext ==
    \/ \E n \in 0..MaxHopCount : ResonateHopping(n)
    \/ \E now_ms \in 0..(Word - 1) : EmitTimeHoppingWave(now_ms)

(***************************************************************************)
(* Aether::emit in local mode with a store, from its first check to its    *)
(* return (aether.rs 145-307), run by one caller at a time, with subscribe *)
(* and the subscribers' reads.  The queues and the log hold wave ids.      *)
(***************************************************************************)
FrameConfigs == [aether : Configs, snapshot_interval : {0, 1}]

FEntry(name) == IF freg[name] # 0 THEN freg[name] ELSE Len(fq) + 1

FReceiverCount(ch) == Cardinality({i \in DOMAIN fcur : fcur[i].ch = ch})

NoEmitCall == [wave |-> NoWave, result |-> "none"]

FrameInitFrom(cfgs) ==
    /\ fcfg \in cfgs
    /\ freg = [n \in ValidNames |-> 0]
    /\ fq = <<>>
    /\ fcur = <<>>
    /\ fstats = [total_waves |-> 0]
    /\ flog = <<>>
    /\ fsnap = <<>>
    /\ fnext = 1
    /\ flast = NoEmitCall

FrameInit == FrameInitFrom(FrameConfigs)

FrameBuilt == FrameInitFrom({[aether |-> VibBrokerConfig, snapshot_interval |-> 1]})

\* Aether::emit, lines 145-307: the checks; then propagate, append_wave,
\* entry-or-insert, send; after a successful send the count and the snapshot
FEmit(w) ==
    /\ fnext <= MaxEmits
    /\ w.id = fnext
    /\ fnext' = fnext + 1
    /\ flast' = [wave |-> w, result |-> EmitResult(EmitOutcome(fcfg.aether, w))]
    /\ IF EmitOutcome(fcfg.aether, w) = "Dispatch"
       THEN LET sent == Propagate(w)
                index == Len(flog)
                ch == FEntry(w.channel)
                ok == ch <= Len(fq) /\ FReceiverCount(ch) > 0 IN
            /\ flog' = Append(flog, sent.id)
            /\ freg' = [freg EXCEPT ![w.channel] = ch]
            /\ fq' = IF ch > Len(fq) THEN Append(fq, <<>>)
                     ELSE IF ok THEN [fq EXCEPT ![ch] = Push(@, sent.id)]
                     ELSE fq
            /\ fstats' = IF ok THEN [fstats EXCEPT !.total_waves = @ + 1] ELSE fstats
            /\ fsnap' = IF /\ ok
                           /\ fcfg.snapshot_interval > 0
                           /\ fstats'.total_waves % fcfg.snapshot_interval = 0
                        THEN <<AetherSnapshot(index, fstats')>>
                        ELSE fsnap
       ELSE UNCHANGED <<freg, fq, fstats, flog, fsnap>>
    /\ UNCHANGED <<fcfg, fcur>>
    /\ UNCHANGED notFrame

\* Aether::subscribe, local mode
FSubscribe(name) ==
    /\ Len(fcur) < MaxChans
    /\ LET ch == FEntry(name) IN
       /\ freg' = [freg EXCEPT ![name] = ch]
       /\ fq' = IF ch > Len(fq) THEN Append(fq, <<>>) ELSE fq
       /\ fcur' = Append(fcur, [ch |-> ch,
                                next |-> IF ch > Len(fq) THEN 0 ELSE Len(fq[ch]),
                                yielded |-> <<>>])
    /\ UNCHANGED <<fcfg, fstats, flog, fsnap, fnext, flast>>
    /\ UNCHANGED notFrame

\* a read on a receiver
FRecv(i) ==
    /\ i \in DOMAIN fcur
    /\ LET c == fcur[i]
           tail == Len(fq[c.ch]) IN
       /\ c.next < tail
       /\ fcur' = IF tail - c.next > Capacity
                  THEN [fcur EXCEPT ![i].next = tail - Capacity]
                  ELSE [fcur EXCEPT ![i].next = @ + 1,
                                    ![i].yielded = Append(@, fq[c.ch][c.next + 1])]
    /\ UNCHANGED <<fcfg, freg, fq, fstats, flog, fsnap, fnext, flast>>
    /\ UNCHANGED notFrame

FrameNext ==
    \/ \E w \in EmitInputs(fnext) : FEmit(w)
    \/ \E n \in ValidNames : FSubscribe(n)
    \/ \E i \in 1..MaxChans : FRecv(i)

(***************************************************************************)
(* A wave relayed through the broker in local mode: one channel with one   *)
(* subscriber; a wave is emitted with any propagation count, received, and *)
(* emitted again as received (aether.rs 195-207 and 258-272, wave.rs       *)
(* 201-208).                                                               *)
(***************************************************************************)
\* the waves first passed to emit: any count up to max_propagation
FreshWaves(id) ==
    {[BaseWave(id) EXCEPT !.propagation_count = c, !.source = "v3"] : c \in 0..MaxPropagation}

NoRelay == [wave |-> NoWave, outcome |-> "none"]

RelayInit ==
    /\ rq = <<>>
    /\ rcur = 0
    /\ rgot = <<>>
    /\ rcalls = 0
    /\ rlast = NoRelay

\* Aether::emit on the subscribed channel: the checks, propagate, send
RelayEmit(w) ==
    /\ rcalls < MaxRelays
    /\ rcalls' = rcalls + 1
    /\ rlast' = [wave |-> w, outcome |-> EmitOutcome(VibBrokerConfig, w)]
    /\ rq' = IF EmitOutcome(VibBrokerConfig, w) = "Dispatch"
             THEN Push(rq, [wave |-> Propagate(w), passed |-> w.propagation_count])
             ELSE rq
    /\ UNCHANGED <<rcur, rgot>>
    /\ UNCHANGED notRelay

\* a read on the subscriber's receiver: Lagged when more than the capacity
\* behind, else the next wave
RelayRecv ==
    /\ rcur < Len(rq)
    /\ IF Len(rq) - rcur > Capacity
       THEN rcur' = Len(rq) - Capacity /\ rgot' = rgot
       ELSE rcur' = rcur + 1 /\ rgot' = Append(rgot, rq[rcur + 1])
    /\ UNCHANGED <<rq, rcalls, rlast>>
    /\ UNCHANGED notRelay

RelayNext ==
    \/ \E w \in FreshWaves(rcalls + 1) : RelayEmit(w)
    \/ \E k \in 1..MaxRelays : k <= Len(rgot) /\ RelayEmit(rgot[k].wave)
    \/ RelayRecv

(***************************************************************************)
(* retry_with_timeout in time (reliability.rs 122-145): the invocation of  *)
(* f, the end of the attempt (f's result, or the timeout, which drops f's  *)
(* future), and the backoff sleep are separate steps.                      *)
(***************************************************************************)
\* faulty variant: the future of a timed-out attempt is left running
AfterTimeoutDetached(inflight, k) == inflight

\* tokio::time::timeout returning Err(Elapsed): the future of f is dropped
AfterTimeout(inflight, k) == inflight \ {k}

AttemptsInit ==
    /\ \E m \in 0..MaxRetries : \E b, d \in 0..MaxDelayArg : raPolicy = NewPolicy(m, b, d)
    /\ raAttempt = 0
    /\ raPc = "run"
    /\ raInflight = {}
    /\ raCalls = 0
    /\ raClock = 0
    /\ raStarted = 0
    /\ raWake = 0
    /\ raEnded = [at |-> 0, how |-> "none"]

AttemptsBuilt ==
    /\ raPolicy = NewPolicy(0, 0, 0)
    /\ raAttempt = 0
    /\ raPc = "run"
    /\ raInflight = {}
    /\ raCalls = 0
    /\ raClock = 0
    /\ raStarted = 0
    /\ raWake = 0
    /\ raEnded = [at |-> 0, how |-> "none"]

\* line 124: f() is invoked and its future given to tokio::time::timeout
RaStart ==
    /\ raPc = "run"
    /\ raCalls' = raCalls + 1
    /\ raInflight' = raInflight \cup {raCalls + 1}
    /\ raStarted' = raClock
    /\ raPc' = "await"
    /\ UNCHANGED <<raPolicy, raAttempt, raClock, raWake, raEnded>>
    /\ UNCHANGED notAttempts

\* lines 124-143: the attempt ends, with f's result before the timeout or
\* with the timeout; then return, or attempt += 1 and the backoff delay
RaEnd(out) ==
    /\ raPc = "await"
    /\ IF out = "timeout" THEN raClock - raStarted >= AttemptTimeout
                          ELSE raClock - raStarted < AttemptTimeout
    /\ raInflight' = IF out = "timeout" THEN AfterTimeout(raInflight, raCalls)
                                        ELSE raInflight \ {raCalls}
    /\ raEnded' = [at |-> raClock, how |-> out]
    /\ IF out = "ok" \/ Exhausted(raAttempt, raPolicy)
       THEN /\ raPc' = "done"
            /\ UNCHANGED <<raAttempt, raWake>>
       ELSE /\ raAttempt' = raAttempt + 1
            /\ raWake' = raClock + backoff_delay(raPolicy, raAttempt + 1)
            /\ raPc' = IF backoff_delay(raPolicy, raAttempt + 1) > 0 THEN "sleep" ELSE "run"
    /\ UNCHANGED <<raPolicy, raCalls, raClock, raStarted>>
    /\ UNCHANGED notAttempts

\* line 142: sleep(delay) is over
RaWake ==
    /\ raPc = "sleep"
    /\ raClock >= raWake
    /\ raPc' = "run"
    /\ UNCHANGED <<raPolicy, raAttempt, raInflight, raCalls, raClock, raStarted, raWake, raEnded>>
    /\ UNCHANGED notAttempts

\* time passes while the call waits: in an attempt up to the timeout, in a
\* sleep up to its deadline
RaTick ==
    /\ raClock < MaxTime
    /\ \/ raPc = "await" /\ raClock - raStarted < AttemptTimeout
       \/ raPc = "sleep" /\ raClock < raWake
    /\ raClock' = raClock + 1
    /\ UNCHANGED <<raPolicy, raAttempt, raPc, raInflight, raCalls, raStarted, raWake, raEnded>>
    /\ UNCHANGED notAttempts

AttemptsNext ==
    \/ RaStart
    \/ \E out \in AttemptOutcomes : RaEnd(out)
    \/ RaWake
    \/ RaTick

(***************************************************************************)
(* Vibrator::receive under a stream of waves: one subscriber with a        *)
(* receiver on each of two channels, and emitters that never stop.  Each   *)
(* receiver holds the waves it has not read, at most Capacity of them; the *)
(* marked wave is emitted once, the waves of the stream carry one id.      *)
(***************************************************************************)
\* the subscriber whose receive is followed
Sweeper == "v2"

\* its receivers, in the order of its resonate_on calls
SweepChannels == <<NameA, NameB>>

SweepSlots == 1..Len(SweepChannels)

\* the marked wave: it passes the source and noise-floor filters
MarkedWave(name) == [BaseWave(1) EXCEPT !.channel = name, !.source = "v1"]

\* the waves of the stream on a channel: one that passes the filters, one of
\* the subscriber's own, one below its noise floor
StreamWaves(name) ==
    {[BaseWave(2) EXCEPT !.channel = name, !.source = x[1], !.amplitude = x[2]] :
        x \in {<<"v1", AmpOne>>, <<Sweeper, AmpOne>>, <<"v1", LowAmp>>}}

SweepInit ==
    /\ swq = [k \in SweepSlots |-> <<>>]
    /\ swlag = [k \in SweepSlots |-> FALSE]
    /\ swpc = "idle"
    /\ swidx = 0
    /\ swgot = <<>>
    /\ swmark = "unsent"

\* Aether::emit on a channel the subscriber holds a receiver of: Sender::send
\* puts the wave at the tail; a receiver already Capacity waves behind loses
\* its oldest unread wave and is lagging
SweepEmit(k, w) ==
    /\ w.id = 1 => swmark = "unsent"
    /\ LET full == Len(swq[k]) = Capacity
           kept == IF full THEN Tail(swq[k]) ELSE swq[k] IN
       /\ swq' = [swq EXCEPT ![k] = Push(kept, w)]
       /\ swlag' = [swlag EXCEPT ![k] = @ \/ full]
       /\ swmark' = IF w.id = 1 THEN "buffered"
                    ELSE IF full /\ Head(swq[k]).id = 1 THEN "overwritten"
                    ELSE swmark
    /\ UNCHANGED <<swpc, swidx, swgot>>
    /\ UNCHANGED notSweep

\* Vibrator::receive, lines 195-201: the receivers are not empty, so the call
\* enters the loop and the for statement starts at the first receiver
SweepReceiveCall ==
    /\ swpc = "idle"
    /\ swpc' = "receive"
    /\ swidx' = 1
    /\ UNCHANGED <<swq, swlag, swgot, swmark>>
    /\ UNCHANGED notSweep

\* the receiver after swidx in the for statement; after the last one the call
\* sleeps 10 ms and the for statement starts again
SweepNextIdx == IF swidx < Len(SweepChannels) THEN swidx + 1 ELSE 1

\* Vibrator::receive, lines 202-237: try_recv on one receiver.  Lagged is
\* logged and the sweep goes on, Empty goes on, a wave of the subscriber's own
\* or below its noise floor is consumed and the sweep goes on, any other wave
\* is returned
SweepReceiveStep ==
    /\ swpc = "receive"
    /\ LET k == swidx IN
       IF swlag[k]
       THEN /\ swlag' = [swlag EXCEPT ![k] = FALSE]
            /\ swmark' = IF swmark = "overwritten" THEN "reported" ELSE swmark
            /\ swidx' = SweepNextIdx
            /\ UNCHANGED <<swq, swpc, swgot>>
       ELSE IF swq[k] = <<>>
       THEN /\ swidx' = SweepNextIdx
            /\ UNCHANGED <<swq, swlag, swpc, swgot, swmark>>
       ELSE IF NotOwn(Head(swq[k]), Sweeper) /\ PassesNoiseFloor(Head(swq[k]), Sweeper)
       THEN /\ swq' = [swq EXCEPT ![k] = Tail(@)]
            /\ swgot' = <<Head(swq[k])>>
            /\ swmark' = IF Head(swq[k]).id = 1 THEN "returned" ELSE swmark
            /\ swpc' = "idle"
            /\ swidx' = 0
            /\ UNCHANGED swlag
       ELSE /\ swq' = [swq EXCEPT ![k] = Tail(@)]
            /\ swidx' = SweepNextIdx
            /\ UNCHANGED <<swlag, swpc, swgot, swmark>>
    /\ UNCHANGED notSweep

SweepNext ==
    \/ \E k \in SweepSlots : SweepEmit(k, MarkedWave(SweepChannels[k]))
    \/ \E k \in SweepSlots : \E w \in StreamWaves(SweepChannels[k]) : SweepEmit(k, w)
    \/ SweepReceiveCall
    \/ SweepReceiveStep

(***************************************************************************)
(* Specifications.  Each one runs one component from every construction of *)
(* it; the other components are built once and stay as built.              *)
(***************************************************************************)
InitBroker ==
    /\ BrokerInit /\ BreakerInitFrom({MaxThreshold}) /\ PoolInitFrom({MaxInflightArg})
    /\ RateInitFrom({MaxRate}) /\ RetryInitFrom({0}, {0}) /\ VibBuilt
    /\ ChecksBuilt
    /\ StoreBuilt
    /\ RemovalInit
    /\ TransportBuilt
    /\ MatchBuilt
    /\ HopBuilt
    /\ FrameBuilt
    /\ RelayInit
    /\ AttemptsBuilt
    /\ SweepInit

InitBreaker ==
    /\ BrokerInit /\ BreakerInit /\ PoolInitFrom({MaxInflightArg})
    /\ RateInitFrom({MaxRate}) /\ RetryInitFrom({0}, {0}) /\ VibBuilt
    /\ ChecksBuilt
    /\ StoreBuilt
    /\ RemovalInit
    /\ TransportBuilt
    /\ MatchBuilt
    /\ HopBuilt
    /\ FrameBuilt
    /\ RelayInit
    /\ AttemptsBuilt
    /\ SweepInit

InitPool ==
    /\ BrokerInit /\ BreakerInitFrom({MaxThreshold}) /\ PoolInit
    /\ RateInitFrom({MaxRate}) /\ RetryInitFrom({0}, {0}) /\ VibBuilt
    /\ ChecksBuilt
    /\ StoreBuilt
    /\ RemovalInit
    /\ TransportBuilt
    /\ MatchBuilt
    /\ HopBuilt
    /\ FrameBuilt
    /\ RelayInit
    /\ AttemptsBuilt
    /\ SweepInit

InitRate ==
    /\ BrokerInit /\ BreakerInitFrom({MaxThreshold}) /\ PoolInitFrom({MaxInflightArg})
    /\ RateInit /\ RetryInitFrom({0}, {0}) /\ VibBuilt
    /\ ChecksBuilt
    /\ StoreBuilt
    /\ RemovalInit
    /\ TransportBuilt
    /\ MatchBuilt
    /\ HopBuilt
    /\ FrameBuilt
    /\ RelayInit
    /\ AttemptsBuilt
    /\ SweepInit

InitRetry ==
    /\ BrokerInit /\ BreakerInitFrom({MaxThreshold}) /\ PoolInitFrom({MaxInflightArg})
    /\ RateInitFrom({MaxRate}) /\ RetryInit /\ VibBuilt
    /\ ChecksBuilt
    /\ StoreBuilt
    /\ RemovalInit
    /\ TransportBuilt
    /\ MatchBuilt
    /\ HopBuilt
    /\ FrameBuilt
    /\ RelayInit
    /\ AttemptsBuilt
    /\ SweepInit

InitVib ==
    /\ BrokerInit /\ BreakerInitFrom({MaxThreshold}) /\ PoolInitFrom({MaxInflightArg})
    /\ RateInitFrom({MaxRate}) /\ RetryInitFrom({0}, {0}) /\ VibInit
    /\ ChecksBuilt
    /\ StoreBuilt
    /\ RemovalInit
    /\ TransportBuilt
    /\ MatchBuilt
    /\ HopBuilt
    /\ FrameBuilt
    /\ RelayInit
    /\ AttemptsBuilt
    /\ SweepInit

InitChecks ==
    /\ BrokerInit /\ BreakerInitFrom({MaxThreshold}) /\ PoolInitFrom({MaxInflightArg})
    /\ RateInitFrom({MaxRate}) /\ RetryInitFrom({0}, {0}) /\ VibBuilt
    /\ ChecksInit
    /\ StoreBuilt
    /\ RemovalInit
    /\ TransportBuilt
    /\ MatchBuilt
    /\ HopBuilt
    /\ FrameBuilt
    /\ RelayInit
    /\ AttemptsBuilt
    /\ SweepInit

InitStore ==
    /\ BrokerInit /\ BreakerInitFrom({MaxThreshold}) /\ PoolInitFrom({MaxInflightArg})
    /\ RateInitFrom({MaxRate}) /\ RetryInitFrom({0}, {0}) /\ VibBuilt
    /\ ChecksBuilt
    /\ StoreInit
    /\ RemovalInit
    /\ TransportBuilt
    /\ MatchBuilt
    /\ HopBuilt
    /\ FrameBuilt
    /\ RelayInit
    /\ AttemptsBuilt
    /\ SweepInit

InitRemoval ==
    /\ BrokerInit /\ BreakerInitFrom({MaxThreshold}) /\ PoolInitFrom({MaxInflightArg})
    /\ RateInitFrom({MaxRate}) /\ RetryInitFrom({0}, {0}) /\ VibBuilt
    /\ ChecksBuilt
    /\ StoreBuilt
    /\ RemovalInit
    /\ TransportBuilt
    /\ MatchBuilt
    /\ HopBuilt
    /\ FrameBuilt
    /\ RelayInit
    /\ AttemptsBuilt
    /\ SweepInit

InitTransport ==
    /\ BrokerInit /\ BreakerInitFrom({MaxThreshold}) /\ PoolInitFrom({MaxInflightArg})
    /\ RateInitFrom({MaxRate}) /\ RetryInitFrom({0}, {0}) /\ VibBuilt
    /\ ChecksBuilt
    /\ StoreBuilt
    /\ RemovalInit
    /\ TransportInit
    /\ MatchBuilt
    /\ HopBuilt
    /\ FrameBuilt
    /\ RelayInit
    /\ AttemptsBuilt
    /\ SweepInit

InitMatch ==
    /\ BrokerInit /\ BreakerInitFrom({MaxThreshold}) /\ PoolInitFrom({MaxInflightArg})
    /\ RateInitFrom({MaxRate}) /\ RetryInitFrom({0}, {0}) /\ VibBuilt
    /\ ChecksBuilt
    /\ StoreBuilt
    /\ RemovalInit
    /\ TransportBuilt
    /\ MatchInit
    /\ HopBuilt
    /\ FrameBuilt
    /\ RelayInit
    /\ AttemptsBuilt
    /\ SweepInit

InitHop ==
    /\ BrokerInit /\ BreakerInitFrom({MaxThreshold}) /\ PoolInitFrom({MaxInflightArg})
    /\ RateInitFrom({MaxRate}) /\ RetryInitFrom({0}, {0}) /\ VibBuilt
    /\ ChecksBuilt
    /\ StoreBuilt
    /\ RemovalInit
    /\ TransportBuilt
    /\ MatchBuilt
    /\ HopInit
    /\ FrameBuilt
    /\ RelayInit
    /\ AttemptsBuilt
    /\ SweepInit

InitFrame ==
    /\ BrokerInit /\ BreakerInitFrom({MaxThreshold}) /\ PoolInitFrom({MaxInflightArg})
    /\ RateInitFrom({MaxRate}) /\ RetryInitFrom({0}, {0}) /\ VibBuilt
    /\ ChecksBuilt
    /\ StoreBuilt
    /\ RemovalInit
    /\ TransportBuilt
    /\ MatchBuilt
    /\ HopBuilt
    /\ FrameInit
    /\ RelayInit
    /\ AttemptsBuilt
    /\ SweepInit

InitRelay ==
    /\ BrokerInit /\ BreakerInitFrom({MaxThreshold}) /\ PoolInitFrom({MaxInflightArg})
    /\ RateInitFrom({MaxRate}) /\ RetryInitFrom({0}, {0}) /\ VibBuilt
    /\ ChecksBuilt
    /\ StoreBuilt
    /\ RemovalInit
    /\ TransportBuilt
    /\ MatchBuilt
    /\ HopBuilt
    /\ FrameBuilt
    /\ RelayInit
    /\ AttemptsBuilt
    /\ SweepInit

InitAttempts ==
    /\ BrokerInit /\ BreakerInitFrom({MaxThreshold}) /\ PoolInitFrom({MaxInflightArg})
    /\ RateInitFrom({MaxRate}) /\ RetryInitFrom({0}, {0}) /\ VibBuilt
    /\ ChecksBuilt
    /\ StoreBuilt
    /\ RemovalInit
    /\ TransportBuilt
    /\ MatchBuilt
    /\ HopBuilt
    /\ FrameBuilt
    /\ RelayInit
    /\ AttemptsInit
    /\ SweepInit

InitSweep ==
    /\ BrokerInit /\ BreakerInitFrom({MaxThreshold}) /\ PoolInitFrom({MaxInflightArg})
    /\ RateInitFrom({MaxRate}) /\ RetryInitFrom({0}, {0}) /\ VibBuilt
    /\ ChecksBuilt
    /\ StoreBuilt
    /\ RemovalInit
    /\ TransportBuilt
    /\ MatchBuilt
    /\ HopBuilt
    /\ FrameBuilt
    /\ RelayInit
    /\ AttemptsBuilt
    /\ SweepInit

\* the broker in local mode
SpecBroker == InitBroker /\ [][BrokerNext]_vars

\* the circuit breaker with concurrent callers
SpecBreaker == InitBreaker /\ [][BreakerNext]_vars

\* the task pool
SpecPool == InitPool /\ [][PoolNext]_vars

\* the task pool with a scheduled spawn call: a permit released while the call
\* waits in acquire_owned wakes it, and the woken call is polled.  Nothing is
\* assumed about the tasks, reap or the drop of the pool.
SpecPoolLive == SpecPool /\ WF_vars(SpawnAcquire)

\* the task pool with a rate limiter
SpecRate == InitRate /\ [][RateNext]_vars

\* retry_with_timeout under every policy
SpecRetry == InitRetry /\ [][RetryNext]_vars

\* vibrators on a broker in local mode
SpecVib == InitVib /\ [][VibNext]_vars

\* the checks of emit on every configuration and wave
SpecChecks == InitChecks /\ [][ChecksNext]_vars

\* the durable log under concurrent emit calls
SpecStore == InitStore /\ [][StoreNext]_vars

\* the broker in local mode, with the removals recorded
SpecRemoval == InitRemoval /\ [][RemovalNext]_vars

\* the broker in transport mode
SpecTransport == InitTransport /\ [][TransportNext]_vars

\* Channel::matches over all pairs of segment lists
SpecMatch == InitMatch /\ [][MatchNext]_vars

\* frequency hopping: the channel of a time-hopped wave
SpecHop == InitHop /\ [][HopNext]_vars

\* one emit call from its checks to its return, in local mode with a store
SpecFrame == InitFrame /\ [][FrameNext]_vars

\* a wave relayed hop by hop
SpecRelay == InitRelay /\ [][RelayNext]_vars

\* retry_with_timeout with attempts and sleeps that take time
SpecAttempts == InitAttempts /\ [][AttemptsNext]_vars

\* Vibrator::receive under a stream of waves
SpecSweep == InitSweep /\ [][SweepNext]_vars

\* the same with a subscriber that calls receive again and again and whose call
\* is scheduled: the loop of receive and the caller's loop both keep running.
\* Nothing is assumed about the emitters.
SpecSweepFair ==
    SpecSweep /\ WF_vars(SweepReceiveCall) /\ WF_vars(SweepReceiveStep)

(***************************************************************************)
(* Properties of the broker.                                               *)
(***************************************************************************)
Quiescent == \A e \in Emitters : em[e].pc = "idle"

\* the emit calls that passed every check and reached send
Dispatched(r) == r.outcome \in {"Sent", "NoReceiver"}

Count(id, seq) == Cardinality({k \in DOMAIN seq : seq[k] = id})

IndexIn(seq, id) == CHOOSE k \in DOMAIN seq : seq[k] = id

\* receiver i has read everything pushed into its channel
Drained(i) == cursors[i].next = Len(queue[cursors[i].ch])

\* C1 as stated: once every emit call has returned, total_waves is the number
\* of calls that returned ok without short-circuiting, the calls that found no
\* subscriber included.
C1_AsStated ==
    Quiescent => total_waves = Cardinality({r \in returned : Dispatched(r)})

\* C1 amended: total_waves counts exactly the waves pushed into a queue.  At
\* every moment it is the number of pushes less the calls that have pushed and
\* not yet taken the stats lock; once every call has returned it is the number
\* of calls whose send succeeded, and the calls that short-circuited, were
\* rejected or found no subscriber (all of those return ok or an error) have
\* left it unchanged.
C1_TotalWaves ==
    /\ total_waves + Cardinality({e \in Emitters : em[e].pc = "stats"}) = Len(pushLog)
    /\ Quiescent =>
         total_waves = Cardinality({r \in returned : r.outcome = "Sent"})
    /\ \A r \in returned :
         r.outcome \in {"Sent", "NoReceiver", "Exhausted", "Invalid"} => r.result = "Ok"

\* two calls have returned ok, one pushed its wave and one found no subscriber
C1_Witness ==
    /\ Quiescent
    /\ \E r \in returned : r.outcome = "Sent"
    /\ \E r \in returned : r.outcome = "NoReceiver"
    /\ total_waves = 1

\* no receiver yields a wave twice, and none yields a wave of another name
YieldsAtMostOnceOwnName ==
    /\ \A i \in DOMAIN cursors : \A k \in DOMAIN cursors[i].yielded :
         Count(cursors[i].yielded[k], cursors[i].yielded) = 1
    /\ \A i \in DOMAIN cursors : \A r \in returned :
         Count(r.id, cursors[i].yielded) > 0 => r.name = cursors[i].name

\* C2 as stated: every receiver obtained by subscribe(C) before an emit on C
\* that reached send yields that wave exactly once, unless it lost it to lag.
C2_AsStated ==
    /\ YieldsAtMostOnceOwnName
    /\ \A r \in returned : Dispatched(r) =>
         \A i \in r.pre :
            (Drained(i) /\ r.id \notin cursors[i].missed)
               => Count(r.id, cursors[i].yielded) = 1

\* C2 amended: every receiver obtained by subscribe(C) before an emit on C
\* that reached send, and whose registry entry had not been removed or cleared
\* in between, yields that wave exactly once (once it has read its queue to
\* the end, unless it lost the wave to lag); no receiver yields a wave twice
\* and no receiver subscribed under another name yields it.
C2_ExactlyOnce ==
    /\ YieldsAtMostOnceOwnName
    /\ \A r \in returned : Dispatched(r) =>
         \A i \in r.live :
            (Drained(i) /\ r.id \notin cursors[i].missed)
               => Count(r.id, cursors[i].yielded) = 1

\* two receivers of one channel have both yielded the same wave
C2_Witness ==
    \E r \in returned :
       /\ r.outcome = "Sent"
       /\ r.live = {1, 2}
       /\ \A i \in r.live : Drained(i) /\ Count(r.id, cursors[i].yielded) = 1

CallStep(c) == callers[c].pc = "idle" /\ callers'[c] # callers[c]

\* a step in which the call of caller c gets the result of f
FinishStep(c) == callers[c].pc = "running" /\ callers'[c].pc = "idle"

\* C4: while the breaker is Closed its failure count is the number of failed
\* calls since the last successful one (a success resets it to 0) and is below
\* failure_threshold, so after failure_threshold failures in a row the breaker
\* has left Closed for Open; and a call that found the breaker Open less than
\* open_duration after it opened was refused with "circuit open" and never ran.
C4_ClosedCounting ==
    /\ cb.tag = "Closed" =>
          (cb.failures = closedFails /\ closedFails < cbConf.failure_threshold)
    /\ \A c \in Callers :
          (/\ callers[c].seen.tag = "Open"
           /\ Elapsed(callers[c].seen.opened_at, callers[c].at) < cbConf.open_duration)
          => (callers[c].pc = "idle" /\ callers[c].last = "open")

\* C4 witness: two failures in a row opened the breaker and a call was refused
C4_Witness ==
    /\ cbConf.failure_threshold = 2
    /\ closedFails = 2
    /\ cb.tag = "Open"
    /\ \E c \in Callers : callers[c].last = "open" /\ callers[c].seen = cb

\* C5: a call that finds the breaker Open is forwarded, and moves the breaker
\* to HalfOpen with successes = 0, exactly when open_duration has elapsed since
\* opened_at; earlier it is refused and the state is left as it is.
C5_OpenToHalfOpen ==
    [][\A c \in Callers :
          (CallStep(c) /\ cb.tag = "Open") =>
             IF Elapsed(cb.opened_at, now) >= cbConf.open_duration
             THEN cb' = HalfOpen(0) /\ callers'[c].pc = "running"
             ELSE cb' = cb /\ callers'[c].pc = "idle" /\ callers'[c].last = "open"]_vars

\* C5 witness: a call that found the breaker Open after open_duration is running
\* and the breaker is HalfOpen with no successes
C5_Witness ==
    \E c \in Callers :
        /\ callers[c].pc = "running"
        /\ callers[c].seen.tag = "Open"
        /\ Elapsed(callers[c].seen.opened_at, callers[c].at) >= cbConf.open_duration
        /\ cb = HalfOpen(0)

\* C6: in HalfOpen a call is forwarded; a success counts, and the
\* half_open_successes-th in a row closes the breaker with failures = 0; a
\* failure opens the breaker with opened_at the time of that failure.
C6_HalfOpen ==
    [][\A c \in Callers :
          /\ (CallStep(c) /\ cb.tag = "HalfOpen") =>
                (callers'[c].pc = "running" /\ cb' = cb)
          /\ (FinishStep(c) /\ cb.tag = "HalfOpen") =>
                IF callers'[c].last = "ok"
                THEN IF cb.successes + 1 >= cbConf.half_open_successes
                     THEN cb' = Closed(0)
                     ELSE cb' = HalfOpen(cb.successes + 1)
                ELSE cb' = Open(now)]_vars

\* C6 witness: a failure in HalfOpen, after a success there, has just opened the
\* breaker again (no failure was recorded in Closed since the last success)
C6_Witness ==
    /\ cb.tag = "Open"
    /\ closedFails = 0
    /\ cb.opened_at = now
    /\ now > cbConf.open_duration
    /\ \E c \in Callers : callers[c].last = "err"

\* the idle callers whose last call was admitted in Closed with failures = 0
\* and failed
ClosedZeroFailers ==
    {c \in Callers : /\ callers[c].pc = "idle"
                     /\ callers[c].last = "err"
                     /\ callers[c].seen = Closed(0)}

\* C7: no update of a concurrent caller is lost: when the k calls admitted in
\* Closed with failures = 0 have all failed, with no success and no other call
\* since, the breaker is Closed with failures = k if k < failure_threshold and
\* Open otherwise.
C7_NoLostUpdate ==
    (/\ \A c \in Callers : callers[c].pc = "idle"
     /\ ClosedZeroFailers # {}
     /\ closedFails = Cardinality(ClosedZeroFailers))
    => IF Cardinality(ClosedZeroFailers) < cbConf.failure_threshold
       THEN cb = Closed(Cardinality(ClosedZeroFailers))
       ELSE cb.tag = "Open"

\* C7 witness: two calls were in flight together from Closed with failures = 0,
\* both failed, and the breaker with failure_threshold = 2 is Open
C7_Witness ==
    /\ ClosedZeroFailers = Callers
    /\ closedFails = 2
    /\ cbConf.failure_threshold = 2
    /\ cb.tag = "Open"

(***************************************************************************)
(* Properties of the task pool.                                            *)
(***************************************************************************)
\* C8: at most max(max_inflight, 1) tasks are live, and while that many are live
\* no step starts a task: the pending spawn waits until one of them has ended.
C8_BoundedInflight ==
    [][/\ Cardinality(Live(tasks')) <= Max(poolConf.arg, 1)
       /\ Cardinality(Live(tasks)) = Max(poolConf.arg, 1) =>
             \A t \in TaskIds : tasks[t] = "unborn" => tasks'[t] = "unborn"]_vars

\* C8 witness: a spawn is waiting while max_inflight = 2 tasks are live
C8_Witness ==
    /\ spawner = "acquire"
    /\ poolConf.arg = 2
    /\ Cardinality(Live(tasks)) = 2

\* C9 as stated: available permits + live tasks = max_inflight, the argument of
\* TaskManager::new
C9_AsStated == permits + Cardinality(Live(tasks)) = poolConf.arg

\* C9: available permits + live tasks = max(max_inflight, 1), however the tasks
\* end, so that all permits are available when no task is live.
C9_NoPermitLeak ==
    /\ permits + Cardinality(Live(tasks)) = Max(poolConf.arg, 1)
    /\ Live(tasks) = {} => permits = Max(poolConf.arg, 1)

\* C9 witness: a task has completed, another has panicked, none is live and both
\* permits are available
C9_Witness ==
    /\ \E t \in TaskIds : tasks[t] = "done"
    /\ \E t \in TaskIds : tasks[t] = "panicked"
    /\ Live(tasks) = {}
    /\ permits = 2

\* a task started by spawn after the pool was dropped
StartedAfterDrop == dropped /\ spawner = "acquire"

\* C10 as stated: after the pool is dropped no task is cancelled, and no new
\* task is started.
C10_AsStated ==
    /\ \A t \in TaskIds : tasks[t] # "cancelled"
    /\ ~StartedAfterDrop

(***************************************************************************)
(* Properties of the rate-limited task pool.                               *)
(***************************************************************************)
\* the spawn calls that returned in the one-second window that starts at t
\* (one second is rlRate periods)
DoneInWindow(t) == {i \in 1..Len(rlDone) : t <= rlDone[i] /\ rlDone[i] <= t + rlRate}

\* C11 as stated: in every one-second window at most ceil(r) + 1 spawn calls
\* return.
C11_AsStated ==
    \A t \in 0..MaxTime : Cardinality(DoneInWindow(t)) <= rlRate + 1

(***************************************************************************)
(* Properties of retry_with_timeout.                                       *)
(***************************************************************************)
\* C12: f is invoked at most max_retries + 1 times; a success is the last
\* invocation and its value is what is returned; an error is returned after
\* exactly max_retries + 1 invocations, none of which succeeded, and it is the
\* error of the last one, or the timeout error if that one timed out; until
\* then the loop is never stuck.
C12_BoundedAttempts ==
    /\ rtCalls <= policy.max_retries + 1
    /\ rtCalls = attempt + (IF rtPc = "done" THEN 1 ELSE 0)
    /\ rtOks = (IF rtPc = "done" /\ rtResult[1] = "Ok" THEN 1 ELSE 0)
    /\ rtPc = "done" =>
          \/ rtResult = <<"Ok", rtCalls>>
          \/ /\ rtCalls = policy.max_retries + 1
             /\ rtResult \in {<<"Err", rtCalls>>, <<"Err", TimeoutError>>}
    /\ rtPc \in {"run", "sleep", "done"}

\* C12 witness: all max_retries + 1 = 3 attempts failed, the last by timeout
C12_Witness ==
    /\ policy.max_retries = 2
    /\ rtPc = "done"
    /\ rtCalls = 3
    /\ rtResult = <<"Err", TimeoutError>>

\* min(max_delay, base_delay * 2^a) with the saturating operations
ExpectedDelay(p, a) ==
    Min(SaturatingMul(p.base_delay, SaturatingPow2(a)), p.max_delay)

\* C13 as stated: the delay after the failure of attempt a is
\* min(max_delay, base_delay * 2^a), saturating; the delays never decrease and
\* never exceed max_delay.
C13_AsStated ==
    \A i \in 1..Len(rtDelays) :
        /\ rtDelays[i] = ExpectedDelay(policy, i - 1)
        /\ rtDelays[i] <= policy.max_delay
        /\ \A j \in 1..Len(rtDelays) : i <= j => rtDelays[i] <= rtDelays[j]

(***************************************************************************)
(* Properties of the vibrators.                                            *)
(***************************************************************************)
\* the wave with the given id, as the broker sent it
WaveOf(id) == vEmitted[id].wave

\* the ids of the waves receive and receive_from have returned to v
GotIds(v) == {vib[v].got[i] : i \in 1..Len(vib[v].got)}

\* the ids of the waves the receivers of v have moved past
Consumed(v) ==
    UNION {{vq[vib[v].receivers[k].ch][j].id :
              j \in (vib[v].receivers[k].from + 1)..vib[v].receivers[k].next} :
           k \in 1..Len(vib[v].receivers)}

\* C14: no wave returned to a vibrator has an amplitude below its noise floor;
\* a wave below the floor that a receiver has moved past was dropped (or lost
\* to a lag), and every wave moved past that is not below the floor, not the
\* vibrator's own and not lost to a lag was returned.
C14_NoiseFloor ==
    \A v \in VibNames :
        /\ \A id \in GotIds(v) : WaveOf(id).amplitude >= VibConfig(v).noise_floor
        /\ \A id \in Consumed(v) :
              /\ WaveOf(id).amplitude < VibConfig(v).noise_floor =>
                    id \in vib[v].dropped \cup vib[v].missed
              /\ (/\ WaveOf(id).amplitude >= VibConfig(v).noise_floor
                  /\ WaveOf(id).source # v
                  /\ id \notin vib[v].missed) => id \in GotIds(v)

\* C14 witness: a vibrator dropped a wave below its floor and was later
\* returned a wave of the same channel
C14_Witness ==
    \E v \in VibNames : \E d \in vib[v].dropped : \E g \in GotIds(v) :
        /\ WaveOf(d).amplitude < VibConfig(v).noise_floor
        /\ WaveOf(g).channel = WaveOf(d).channel
        /\ g > d

\* C15 as stated: a wave a vibrator emitted itself is never returned to it.
C15_AsStated ==
    \A v \in VibNames : \A id \in Consumed(v) :
        vEmitted[id].by = v => id \notin GotIds(v)

\* C15: no wave returned to a vibrator has the vibrator's name as source; a
\* wave with that source that a receiver has moved past was dropped (or lost to
\* a lag), which covers the waves the vibrator builds with emit_wave; and a
\* vibrator of another name is returned the wave when it passes its floor.
C15_SelfSource ==
    \A v \in VibNames :
        /\ \A id \in GotIds(v) : WaveOf(id).source # VibConfig(v).name
        /\ \A id \in Consumed(v) :
              /\ WaveOf(id).source = VibConfig(v).name =>
                    id \in vib[v].dropped \cup vib[v].missed
              /\ (vEmitted[id].by = v /\ vEmitted[id].api = "emit_wave") =>
                    id \notin GotIds(v)
        /\ \A u \in VibNames \ {v} : \A id \in Consumed(u) :
              (/\ WaveOf(id).source = VibConfig(v).name
               /\ WaveOf(id).amplitude >= VibConfig(u).noise_floor
               /\ id \notin vib[u].missed) => id \in GotIds(u)

\* C15 witness: a vibrator dropped the wave it emitted with emit_wave and the
\* other vibrator was returned it
C15_Witness ==
    \E id \in 1..Len(vEmitted) :
        /\ vEmitted[id].by = "v2"
        /\ vEmitted[id].api = "emit_wave"
        /\ id \in vib["v2"].dropped
        /\ id \in GotIds("v1")

(***************************************************************************)
(* Properties of the checks of emit.                                       *)
(***************************************************************************)
\* the channel name is empty, longer than max_channel_length, or holds a
\* character outside [A-Za-z0-9._*-]
BadName(name) ==
    \/ name = <<>>
    \/ Len(name) > MaxChannelLength
    \/ \E i \in 1..Len(name) : name[i] \notin {"a", "b", ".", "_", "*", "-"}

\* the opaque byte payload's length if one is present, otherwise the length
\* of the serialized structured payload
StatedSize(w) == IF Len(w.payload_bytes) = 1 THEN w.payload_bytes[1] ELSE w.payload_len

\* C16: emit returns ValidationFailed exactly when the channel name is empty,
\* too long or holds a character outside the accepted set, or when the
\* payload size exceeds max_payload_bytes, the size being the opaque byte
\* payload's length if one is present and otherwise the serialized length
C16_ValidationFailed ==
    ckOut.api # "none" =>
        (ckOut.result = "ValidationFailed"
            <=> (BadName(ckOut.sent.channel) \/ StatedSize(ckOut.sent) > MaxPayloadBytes))

\* an emit of a wave with an opaque payload within the limit and a structured
\* payload beyond it has been accepted, and one with a name of one character
\* too many has returned ValidationFailed
C16_Witness ==
    /\ ckOut.api = "emit"
    /\ \/ /\ ckOut.sent.payload_bytes = <<0>>
          /\ ckOut.sent.payload_len = MaxPayloadBytes + 1
          /\ ckOut.sent.channel = NameA
          /\ ckOut.result = "Ok"
       \/ /\ ckOut.sent.channel = TooLongName
          /\ ckOut.sent.payload_len = 1
          /\ ckOut.result = "ValidationFailed"

\* the wave passes the two validation checks that precede authorization
PassesValidation(w) == ~BadName(w.channel) /\ StatedSize(w) <= MaxPayloadBytes

\* C17 as stated: every emit whose token is absent or different from the
\* configured one, and every emit whose source is absent or not in a
\* non-empty allowed_sources, returns AuthorizationFailed
C17_AsStated ==
    ckOut.api # "none" =>
        /\ (ckCfg.auth_token # None /\ ckOut.sent.auth_token # ckCfg.auth_token)
               => ckOut.result = "AuthorizationFailed"
        /\ (ckCfg.allowed_sources # {} /\ ckOut.sent.source \notin ckCfg.allowed_sources)
               => ckOut.result = "AuthorizationFailed"

\* C17: an emit that passes validation returns AuthorizationFailed when the
\* broker has a token and the wave's is absent or different, and when
\* allowed_sources is non-empty and the wave's source is absent or not in it;
\* a wave emitted through a vibrator configured with the broker's token
\* carries that token when it reaches the checks, so it is refused only for
\* its source
C17_Authorization ==
    ckOut.api # "none" =>
        /\ (PassesValidation(ckOut.sent) /\ ckCfg.auth_token # None
                /\ ckOut.sent.auth_token # ckCfg.auth_token)
               => ckOut.result = "AuthorizationFailed"
        /\ (PassesValidation(ckOut.sent) /\ ckCfg.allowed_sources # {}
                /\ ckOut.sent.source \notin ckCfg.allowed_sources)
               => ckOut.result = "AuthorizationFailed"
        /\ (ckOut.api = "vibrator" /\ ckCfg.auth_token # None
                /\ ckVibToken = ckCfg.auth_token)
               => /\ ckOut.sent.auth_token = ckCfg.auth_token
                  /\ ckOut.result = "AuthorizationFailed"
                        => /\ ckCfg.allowed_sources # {}
                           /\ ckOut.sent.source \notin ckCfg.allowed_sources

\* a wave built with another token went through a vibrator holding the
\* broker's token and was accepted, its source being on the list
C17_Witness ==
    /\ ckOut.api = "vibrator"
    /\ ckCfg = [auth_token |-> "tok", allowed_sources |-> {"v1", "v2"}]
    /\ ckVibToken = "tok"
    /\ ckWave.auth_token = "bad"
    /\ ckWave.source = "v1"
    /\ ckOut.result = "Ok"

(***************************************************************************)
(* Properties of the durable log.                                          *)
(***************************************************************************)
\* the last_index of the stored snapshot, -1 without a snapshot
SnapshotLast == IF meta.snapshot # <<>> THEN meta.snapshot[1].last_index ELSE -1

\* the waves whose append has returned an index greater than the snapshot's
PersistedAfterSnapshot == {w \in Appended : appends[w].index[1] > SnapshotLast}

\* the waves in the log under an index greater than the snapshot's
LoggedAfterSnapshot == {e.value : e \in {x \in log : FromBeBytes(x.key) > SnapshotLast}}

\* the index under which a wave is in the log
LogIndexOf(w) == FromBeBytes((CHOOSE e \in log : e.value = w).key)

\* C18 as stated: recover returns exactly the persisted waves whose index is
\* greater than the snapshot's last_index (all of them without a snapshot),
\* each once, in increasing index order, which is append order; without a
\* durable log it returns the empty list
C18_AsStated ==
    [][recovered'.calls # recovered.calls =>
        LET r == recovered'.waves IN
        /\ store => PersistedAfterSnapshot \subseteq {r[i] : i \in 1..Len(r)}
        /\ {r[i] : i \in 1..Len(r)} \subseteq LoggedAfterSnapshot
        /\ \A i, j \in 1..Len(r) : i < j => LogIndexOf(r[i]) < LogIndexOf(r[j])
        /\ \A i, j \in 1..Len(r) : i < j => r[j] \notin appends[r[i]].after
        /\ ~store => r = <<>>]_vars

\* C19 as stated: the appends get the indices 0, 1, 2, ... in the order in
\* which they are made, also when the emit calls run concurrently: no two
\* appends share an index and no persisted wave is overwritten
C19_AsStated ==
    /\ \A w \in Appended : appends[w].index[1] \in 0..(Cardinality(Appended) - 1)
    /\ \A w1, w2 \in Appended : w1 # w2 => appends[w1].index # appends[w2].index
    /\ \A w1, w2 \in Appended :
          w1 \in appends[w2].after => appends[w1].index[1] < appends[w2].index[1]
    /\ \A w \in Appended :
          [key |-> ToBeBytes(appends[w].index[1], KeyBits), value |-> w] \in log

(***************************************************************************)
(* Properties of the removal of a channel.                                 *)
(***************************************************************************)
\* the waves a broadcast channel held when remove_channel took its entry
BufferedAtRemoval(ch) == {queue[ch][p].id : p \in 1..removedAt[ch]}

\* C20 as stated: once remove_channel(c) has returned ok, a cursor obtained on
\* c before the removal yields only waves that were buffered before the
\* removal: no wave pushed after it, by an emit that starts later or by an
\* emit that was in progress during the removal, is yielded by that cursor
C20_AsStated ==
    \A i \in DOMAIN cursors :
        removedAt[cursors[i].ch] >= 0 =>
            \A k \in 1..Len(cursors[i].yielded) :
                cursors[i].yielded[k] \in BufferedAtRemoval(cursors[i].ch)

(***************************************************************************)
(* Properties of a lagging receiver.                                       *)
(***************************************************************************)
\* the ids of the waves of a broadcast channel at the positions from..to
IdsAt(ch, from, to) == {queue[ch][p].id : p \in from..to}

\* C21: a read by a receiver that is more than the capacity behind loses its
\* oldest undelivered waves and only those, reports their number as the lag,
\* and leaves the receiver at the oldest retained wave, so that its following
\* reads yield the retained waves in push order; a read by a receiver that is
\* at most the capacity behind yields its next wave and loses nothing; no
\* step changes what another receiver has yielded or lost
C21_Lag ==
    [][\A i \in DOMAIN cursors :
         cursors'[i] # cursors[i] =>
            LET c == cursors[i]
                d == cursors'[i]
                behind == Len(queue[c.ch]) - c.next
                lost == behind - Capacity IN
            /\ IF lost > 0
               THEN /\ d.lagged = c.lagged + lost
                    /\ d.missed = c.missed \cup IdsAt(c.ch, c.next + 1, c.next + lost)
                    /\ d.yielded = c.yielded
                    /\ d.next = c.next + lost
               ELSE /\ d.lagged = c.lagged
                    /\ d.missed = c.missed
                    /\ d.yielded = Append(c.yielded, queue[c.ch][c.next + 1].id)
                    /\ d.next = c.next + 1
            /\ \A j \in DOMAIN cursors : j # i => cursors'[j] = cursors[j]]_vars

\* two receivers of one channel with capacity for one wave, two waves pushed:
\* the one that read after each push has yielded both, the one that read
\* after the second push has lost the first, with a lag of one, and then
\* yielded the second
C21_Witness ==
    /\ Capacity < 2
    /\ Len(cursors) = 2
    /\ cursors[1].ch = cursors[2].ch
    /\ \E i, j \in {1, 2} :
          /\ cursors[i].yielded = <<1, 2>> /\ cursors[i].missed = {} /\ cursors[i].lagged = 0
          /\ cursors[j].yielded = <<2>> /\ cursors[j].missed = {1} /\ cursors[j].lagged = 1


(***************************************************************************)
(* C22: the errors emit returns because of the transport                   *)
(***************************************************************************)
\* C22 as stated: every emit that fails because of the transport (serializing,
\* obtaining the client, publishing) returns TransmissionFailed and does not
\* count the wave.
C22_AsStated ==
    tlast.cause # "none" => tlast.result = "TransmissionFailed" /\ tlast.counted = 0

\* C22: an emit that fails serializing the wave or publishing it returns
\* TransmissionFailed, one that fails obtaining the client returns
\* ConnectionFailed, and in each of these cases total_waves is not incremented;
\* total_waves counts exactly the emits that returned Ok.
C22_TransportErrors ==
    /\ tlast.cause \in {"serialize", "publish"} => tlast.result = "TransmissionFailed"
    /\ tlast.cause = "client" => tlast.result = "ConnectionFailed"
    /\ tlast.cause # "none" => tlast.counted = 0
    /\ tlast.result = "Ok" => tlast.counted = 1 /\ tstats.total_waves >= 1
    /\ tstats.total_waves < tnext

\* an emit failed obtaining the client and was not counted
C22_Witness ==
    /\ tlast.cause = "client"
    /\ tlast.result = "ConnectionFailed"
    /\ tstats.total_waves = 0
    /\ nats_client = "unset"
    /\ ~nats_conf.tls_required
    /\ Len(tcursors) > 0


(***************************************************************************)
(* C23: waves of a later schema version on the receiving side              *)
(***************************************************************************)
\* C23 as stated: the bridge pushes no wave whose schema_version is greater
\* than the current one into a local queue, and no receive of a subscriber
\* returns such a wave.
C23_AsStated ==
    /\ \A ch \in DOMAIN tqueue : \A p \in DOMAIN tqueue[ch] : is_compatible(tqueue[ch][p])
    /\ \A i \in DOMAIN tcursors :
          \A p \in DOMAIN tcursors[i].yielded : is_compatible(tcursors[i].yielded[p])

\* a subscriber's receive returned a wave of schema version 2 that the bridge
\* pushed
C23_Received ==
    \E i \in DOMAIN tcursors :
       /\ tcursors[i].yielded # <<>>
       /\ ~is_compatible(tcursors[i].yielded[1])
       /\ bridges[tcursors[i].ch].state = "listening"


(***************************************************************************)
(* C24, C25: the matching rule                                             *)
(***************************************************************************)
\* C24: C.matches(P) is true iff P is "*", or P's last segment is "*" and C's
\* segments start with P's segments minus that last one, or C and P have the
\* same number of segments and each pair is equal or the pattern segment is "*".
C24_MatchRule ==
    mout # <<>> =>
       LET C == mtarget
           P == mpattern
           n == Len(P) IN
       mout[1] = ( \/ P = <<"*">>
                   \/ /\ P[n] = "*"
                      /\ n - 1 <= Len(C)
                      /\ \A k \in 1..(n - 1) : C[k] = P[k]
                   \/ /\ Len(C) = n
                      /\ \A k \in 1..n : C[k] = P[k] \/ P[k] = "*" )

\* "a.b.a" has matched "a.*" by the prefix rule
C24_Witness ==
    mout = <<TRUE>> /\ mtarget = <<"a", "b", "a">> /\ mpattern = <<"a", "*">>

\* C25 as stated: a pattern other than "*" that ends in "*" and has more
\* segments than the target does not match it.
C25_AsStated ==
    (/\ mout # <<>>
     /\ mpattern # <<"*">>
     /\ mpattern[Len(mpattern)] = "*"
     /\ Len(mpattern) > Len(mtarget)) => mout = <<FALSE>>

\* C25: the prefix rule applies whenever the segment counts differ: a pattern
\* other than "*" that ends in "*" and has more segments than the target
\* matches it iff it has exactly one segment more and its leading segments
\* are the target's segments (target "a" matches pattern "a.*").
C25_LongerPattern ==
    (/\ mout # <<>>
     /\ mpattern # <<"*">>
     /\ mpattern[Len(mpattern)] = "*"
     /\ Len(mpattern) > Len(mtarget)) =>
        mout[1] = (/\ Len(mpattern) = Len(mtarget) + 1
                   /\ SubSeq(mpattern, 1, Len(mtarget)) = mtarget)

\* "a.b" has matched "a.b.*"
C25_Witness ==
    mout = <<TRUE>> /\ mtarget = <<"a", "b">> /\ mpattern = <<"a", "b", "*">>


Droppable(w) == w.propagation_count >= MaxPropagation \/ ~IsValid(w)

\* the wave fails the token check or the source check of the configuration
FailsAuthorization(cfg, w) ==
    \/ cfg.auth_token # None /\ w.auth_token # cfg.auth_token
    \/ cfg.allowed_sources # {} /\ w.source \notin cfg.allowed_sources

\* C27: emit checks the channel name, the payload size, the token, the
\* source, hop exhaustion and validity in that order, and a wave failing
\* several checks gets the outcome of the earliest: ValidationFailed if the
\* name or the size is bad, whatever the rest; otherwise AuthorizationFailed
\* if the token or the source is refused, also for a hop-exhausted or
\* below-threshold wave; otherwise ok.
C27_CheckOrder ==
    ckOut.api # "none" =>
        LET w == ckOut.sent IN
        ckOut.result =
            IF BadName(w.channel) \/ StatedSize(w) > MaxPayloadBytes THEN "ValidationFailed"
            ELSE IF FailsAuthorization(ckCfg, w) THEN "AuthorizationFailed"
            ELSE "Ok"

\* a hop-exhausted wave with a wrong token and a good name has returned
\* AuthorizationFailed
C27_Witness ==
    /\ ckOut.api = "emit"
    /\ ckCfg.auth_token = "tok"
    /\ ckOut.sent.auth_token = "bad"
    /\ ckOut.sent.channel = NameA
    /\ ckOut.sent.payload_bytes = <<>>
    /\ ckOut.sent.payload_len = 1
    /\ Droppable(ckOut.sent)
    /\ ckOut.result = "AuthorizationFailed"


(***************************************************************************)
(* C28: what a refused or dropped emit leaves alone                        *)
(***************************************************************************)
\* the wave fails one of the six checks of emit
Refused(cfg, w) ==
    \/ BadName(w.channel)
    \/ StatedSize(w) > MaxPayloadBytes
    \/ FailsAuthorization(cfg, w)
    \/ Droppable(w)

\* the ids in the queues and in what the receivers have yielded
FrameQueued == UNION {{fq[ch][p] : p \in DOMAIN fq[ch]} : ch \in DOMAIN fq}
FrameYielded == UNION {{fcur[i].yielded[p] : p \in DOMAIN fcur[i].yielded} : i \in DOMAIN fcur}

\* C28: an emit that returns ValidationFailed or AuthorizationFailed, or that
\* drops the wave silently, leaves the registry, the queues, the receivers,
\* total_waves, the durable log and the snapshot as they were, and no
\* subscriber receives the wave: receivers yield only what is in the queues.
C28_Frame ==
    /\ [][(fnext' # fnext /\ Refused(fcfg.aether, flast'.wave)) =>
            /\ UNCHANGED <<freg, fq, fcur, fstats, flog, fsnap>>
            /\ flast'.result \in {"ValidationFailed", "AuthorizationFailed", "Ok"}]_vars
    /\ [](FrameYielded \subseteq FrameQueued)
    /\ [](flast.result # "none" /\ Refused(fcfg.aether, flast.wave) =>
             flast.wave.id \notin FrameQueued \cup FrameYielded)

\* after a wave had been pushed, counted, logged and put in the snapshot, an
\* emit with a wrong token returned AuthorizationFailed
C28_Witness ==
    /\ flast.result = "AuthorizationFailed"
    /\ flast.wave.id = 2
    /\ fstats.total_waves = 1
    /\ flog = <<1>>
    /\ fsnap # <<>>
    /\ FrameQueued = {1}
    /\ FrameYielded = {1}


(***************************************************************************)
(* C29: Vibrator::receive                                                  *)
(***************************************************************************)
\* the wave is let through by both filters of vibrator v
PassesFilters(w, v) ==
    /\ w.source # v
    /\ w.amplitude >= VibConfig(v).noise_floor

\* every handle of v is on a closed channel with nothing left to read
AllClosed(v) ==
    \A k \in DOMAIN vib[v].receivers :
       /\ VClosed(vib[v].receivers[k].ch)
       /\ vib[v].receivers[k].next = Len(vq[vib[v].receivers[k].ch])

\* C29: receive returns none exactly when the vibrator has no subscribed
\* channel at the call, and otherwise enters its sweep; the sweep ends only by
\* returning a wave that passes the own-source filter and the noise floor; a
\* lagged handle is skipped and a closed one is empty for good, so the call
\* keeps polling and never returns none, even when every handle is closed.
C29_Receive ==
    [][\A v \in VibNames :
         /\ (vib[v].pc = "idle" /\ vib'[v].pc = "receive") => vib[v].receivers # <<>>
         /\ vib[v].receivers = <<>> => vib'[v].pc # "receive"
         /\ (vib[v].pc = "receive" /\ vib'[v] # vib[v]) =>
               LET k == vib[v].idx
                   r == vib[v].receivers[k]
                   behind == Len(vq[r.ch]) - r.next IN
               /\ vib'[v].pc \in {"receive", "idle"}
               /\ vib'[v].pc = "idle" =>
                     /\ behind \in 1..Capacity
                     /\ PassesFilters(vq[r.ch][r.next + 1], v)
                     /\ vib'[v].got = Append(vib[v].got, vq[r.ch][r.next + 1].id)
               /\ vib'[v].pc = "receive" => vib'[v].got = vib[v].got
               /\ behind > Capacity => vib'[v].pc = "receive"
               /\ AllClosed(v) => vib'[v].pc = "receive"]_vars

\* v2 is polling two handles whose channels are both closed and read to the
\* end, after it returned a wave
C29_Witness ==
    /\ vib["v2"].pc = "receive"
    /\ Len(vib["v2"].receivers) = 2
    /\ AllClosed("v2")
    /\ vib["v2"].got # <<>>


(***************************************************************************)
(* C30: Vibrator::receive_from                                             *)
(***************************************************************************)
\* C30 as stated: a receive_from call on a subscribed channel returns none
\* only when the handle is closed; otherwise, also after a lag, it returns the
\* next buffered wave that passes the filters.
C30_AsStated ==
    [][\A v \in VibNames :
         (/\ vib[v].pc = "receive_from"
          /\ vib'[v].pc = "idle"
          /\ vib'[v].got = vib[v].got) =>
             LET r == vib[v].receivers[vib[v].idx] IN
             VClosed(r.ch) /\ r.next = Len(vq[r.ch])]_vars

\* a receive_from call returned none on a handle that had lagged, with the
\* channel still registered and a retained wave that passes the filters
C30_NoneAfterLag ==
    \E v \in VibNames : \E k \in DOMAIN vib[v].receivers :
       LET r == vib[v].receivers[k] IN
       /\ vib[v].pc = "idle"
       /\ vib[v].missed # {}
       /\ vib[v].got = <<>>
       /\ vib[v].dropped = {}
       /\ ~VClosed(r.ch)
       /\ r.next < Len(vq[r.ch])
       /\ PassesFilters(vq[r.ch][r.next + 1], v)
       /\ Len(vib[v].receivers) = 1


C32_AsStated ==
    \A n \in DOMAIN tchannels :
       (tchannels[n] # 0 /\ TReceiverCount(tchannels[n]) > 0) =>
           bridges[tchannels[n]].state \in {"subscribing", "listening"}

\* the entry of channel a has two subscribers and no bridge task, the client
\* is connected, and a wave published on a has reached neither of them
C32_NoBridge ==
    /\ tchannels[NameA] = 1
    /\ Len(tcursors) = 2
    /\ \A i \in DOMAIN tcursors : tcursors[i].ch = 1 /\ tcursors[i].yielded = <<>>
    /\ bridges[1].state = "none"
    /\ nats_client = "set"
    /\ tstats.total_waves = 1
    /\ tqueue[1] = <<>>
    /\ tnext > MaxPublishes


(***************************************************************************)
(* C33: the propagation count of delivered waves                           *)
(***************************************************************************)
\* C33: every wave the subscriber receives has a propagation count one greater
\* than the count it had when passed to emit, between 1 and max_propagation;
\* and an emit of a wave whose count has reached max_propagation pushes
\* nothing, so the wave is not delivered again.
C33_PropagationCount ==
    /\ [](\A k \in DOMAIN rgot :
             /\ rgot[k].wave.propagation_count = rgot[k].passed + 1
             /\ rgot[k].wave.propagation_count \in 1..MaxPropagation)
    /\ [][(rcalls' # rcalls /\ rlast'.wave.propagation_count >= MaxPropagation)
             => rq' = rq]_vars

\* a wave received with count max_propagation after two hops was emitted
\* again and nothing was pushed
C33_Witness ==
    /\ Len(rgot) = 2
    /\ rgot[1].wave.id = rgot[2].wave.id
    /\ rgot[1].passed = 0
    /\ rgot[2].wave.propagation_count = MaxPropagation
    /\ rlast.wave = rgot[2].wave
    /\ rlast.outcome = "Exhausted"
    /\ Len(rq) = 2


(***************************************************************************)
(* C34, C35: the breaker's counters and its probes                         *)
(***************************************************************************)
\* C34: in every reachable state of the breaker the counters are below their
\* limits: Closed has failures < failure_threshold and HalfOpen has
\* successes < half_open_successes, a configured limit of 0 counting as 1.
C34_CountersBelowLimits ==
    /\ cbConf.failure_threshold >= 1
    /\ cbConf.half_open_successes >= 1
    /\ cb.tag = "Closed" => cb.failures \in 0..(cbConf.failure_threshold - 1)
    /\ cb.tag = "HalfOpen" => cb.successes \in 0..(cbConf.half_open_successes - 1)

\* the breaker is HalfOpen one success short of its limit of two
C34_Witness ==
    /\ cbConf.half_open_successes = 2
    /\ cb.tag = "HalfOpen"
    /\ cb.successes = 1

\* C35 as stated: the result of a call admitted while the breaker was Closed
\* that finishes while it is HalfOpen does not count: it does not move the
\* success count nor make the breaker leave HalfOpen.
C35_AsStated ==
    [][\A c \in Callers :
         (/\ callers[c].pc = "running"
          /\ callers'[c].pc = "idle"
          /\ callers[c].seen.tag = "Closed"
          /\ cb.tag = "HalfOpen") => cb' = cb]_vars

\* the failure of a call admitted in Closed has opened the breaker again while
\* the probe that made it HalfOpen is still running
C35_StaleResult ==
    \E c, p \in Callers :
       /\ callers[c].pc = "idle"
       /\ callers[c].seen.tag = "Closed"
       /\ callers[c].last = "err"
       /\ callers[p].pc = "running"
       /\ callers[p].seen.tag = "Open"
       /\ callers[c].at < callers[p].at
       /\ cb.tag = "Open"
       /\ cb.opened_at >= callers[p].at


(***************************************************************************)
(* C36: one attempt at a time                                              *)
(***************************************************************************)
\* C36: retry_with_timeout never has two attempts in flight: when an attempt
\* has ended, by f's result or by the timeout, no future of f is left, so none
\* runs during the backoff sleep; and f is invoked again only after the
\* previous attempt has ended and the backoff delay has elapsed since.
C36_OneAttempt ==
    /\ [](Cardinality(raInflight) <= 1)
    /\ [](raPc \in {"run", "sleep", "done"} => raInflight = {})
    /\ [](raPc = "await" => raInflight = {raCalls})
    /\ [][raCalls' # raCalls =>
            /\ raInflight = {}
            /\ raCalls > 0 =>
                  /\ raEnded.how \in {"err", "timeout"}
                  /\ raClock - raEnded.at >= backoff_delay(raPolicy, raAttempt)]_vars

\* the third invocation of f is in flight, alone, two ticks after the second
\* attempt timed out
C36_Witness ==
    /\ raPc = "await"
    /\ raCalls = 3
    /\ raInflight = {3}
    /\ raEnded.how = "timeout"
    /\ raStarted - raEnded.at = 2
    /\ backoff_delay(raPolicy, raAttempt) = 2


(***************************************************************************)
(* C37: the snapshot's last_index under concurrent emits                   *)
(***************************************************************************)
\* C37 as stated: under every interleaving of concurrent emits, the
\* snapshot's last_index does not decrease from one snapshot write to the next.
C37_AsStated ==
    [][(meta.snapshot # <<>> /\ meta'.snapshot # meta.snapshot) =>
          meta'.snapshot[1].last_index >= meta.snapshot[1].last_index]_vars

\* the second snapshot written has a lower last_index than the first had, and
\* recover has returned the wave the first snapshot covered
C37_Regressed ==
    /\ snapshot_interval = 1
    /\ meta.snapshot # <<>>
    /\ meta.snapshot[1].stats.total_waves = 2
    /\ meta.snapshot[1].last_index = 0
    /\ \E w \in Appended : appends[w].index = <<1>>
    /\ recovered.waves # <<>>
    /\ \E w \in Appended : appends[w].index = <<1>> /\ recovered.waves[1] = w
    /\ \A e \in PEmitters : pem[e].pc = "idle"


(***************************************************************************)
(* C38: the durable log and total_waves                                    *)
(***************************************************************************)
\* C38 as stated: with a durable log attached, once the emits called have
\* completed the number of waves in the durable log equals stats.total_waves.
C38_AsStated ==
    (store /\ \A e \in PEmitters : pem[e].pc = "idle") =>
        Cardinality(log) = pstats.total_waves

\* one emit has completed: its wave is in the durable log and total_waves is 0
C38_Uncounted ==
    /\ store
    /\ \A e \in PEmitters : pem[e].pc = "idle"
    /\ pnext = 2
    /\ \E en \in log : en.value = 1
    /\ pstats.total_waves = 0


(***************************************************************************)
(* C39: receive and the subscriber's later channels                        *)
(***************************************************************************)
\* C39 as stated: a wave that passes the filters and is buffered on one of the
\* subscriber's channels is eventually returned by receive, or reported lost
\* through a lag, whatever arrives on the other channels.
C39_AsStated == (swmark = "buffered") ~> (swmark \in {"returned", "reported"})

\* a receive call has returned a wave of the first channel's stream while the
\* marked wave waits, unread and not overrun, on the second channel
C39_Starved ==
    /\ swmark = "buffered"
    /\ swq[2] # <<>> /\ Head(swq[2]).id = 1
    /\ ~swlag[2]
    /\ swpc = "idle"
    /\ swgot # <<>> /\ swgot[1].id = 2 /\ swgot[1].channel = SweepChannels[1]

\* the same wave buffered on the subscriber's first channel is returned or
\* reported lost
SweepFirstServed ==
    (swmark = "buffered" /\ \E i \in 1..Len(swq[1]) : swq[1][i].id = 1)
        ~> (swmark \in {"returned", "reported"})


(***************************************************************************)
(* C40: every call of spawn returns                                        *)
(***************************************************************************)
\* every spawned task eventually finishes, normally or by panic
TasksFinish ==
    \A t \in TaskIds : WF_vars(\E how \in {"done", "panicked"} : TaskEnd(t, how))

\* C40: if every spawned task eventually finishes, every call of spawn
\* eventually returns with its task started, also when max_inflight tasks are
\* live at the call and when reap is never called.
C40_SpawnReturns ==
    TasksFinish =>
        \A n \in TaskIds :
            (spawner = "acquire" /\ nextTask = n) ~> (spawner = "idle" /\ tasks[n] # "unborn")

\* a call of spawn made while max_inflight tasks were live has returned with its
\* task started; a task has panicked and reap was never called
C40_Witness ==
    /\ spawner = "idle"
    /\ waited
    /\ ~dropped
    /\ poolConf.max_inflight = MaxInflightArg
    /\ nextTask > MaxInflightArg + 1
    /\ tasks[nextTask - 1] = "live"
    /\ \E t \in TaskIds : tasks[t] = "panicked"
    /\ join_set = 1..(nextTask - 1)

====
